---- MODULE Spec2Model ----
(***************************************************************************)
(* Interactive tracer of python/tracer.py: the worker thread that runs the *)
(* target under bdb (PersistentDebugger), the main thread that serves flow *)
(* requests (main, trace_to_target, wait_for_debugger) and the journal     *)
(* (LinearFlowRecorder).  Threads interleave at the granularity of their   *)
(* accesses to shared state.                                               *)
(***************************************************************************)
EXTENDS Integers, Sequences, FiniteSets, TLC

\* ------------------------------------------------------------------------
\* Bounds of the model
\* ------------------------------------------------------------------------
MaxPre == 1        \* lines of the entry function executed before the call
MaxCallee == 1     \* lines of the callee
MaxPost == 1       \* lines of the entry function executed after the call
MaxReqLine == 2    \* largest line number a request names
MaxReq == 2        \* request lines read by the interactive loop

None == "None"     \* Python's None, for names and paths
NoLine == 0        \* None, for a line number (lines start at 1)
NoIndex == -1      \* None, for the result of a journal search

\* ------------------------------------------------------------------------
\* The target program: entry h (file a.py) that may call k (file b.py).
\* A program is the sequence of line callbacks bdb delivers for it, and
\* the way it ends (normal return or an exception).
\* ------------------------------------------------------------------------
FileA == "/repo/a.py"
FileB == "/repo/b.py"
EntryFn == "h"
CalleeFn == "k"

FileOf(fn) == IF fn = EntryFn THEN FileA ELSE FileB

Callback(fn, ln) == [function |-> fn, file |-> FileOf(fn), line |-> ln]

Body(a, b, c) ==
    [i \in 1..(a + b + c) |->
        IF i <= a THEN Callback(EntryFn, i)
        ELSE IF i <= a + b THEN Callback(CalleeFn, i - a)
        ELSE Callback(EntryFn, i - b)]

Programs ==
    {Body(a, b, c) : a \in 1..MaxPre, b \in 0..MaxCallee, c \in 0..MaxPost}

\* ------------------------------------------------------------------------
\* Requests
\* ------------------------------------------------------------------------
FileArgs == {"", "b.py", "/b.py"}
AbsArgs == {"/repo/a.py", "/repo/b.py", "/b.py"}

IsAbs(v) == v \in AbsArgs

LStrip(v) == IF v = "/b.py" THEN "b.py" ELSE v

JoinRoot(v) ==
    CASE v = "a.py" -> FileA
      [] v = "b.py" -> FileB
      [] OTHER -> v

\* ensure_abs_path: an absolute value is kept as it is (a leading slash is
\* not taken to be relative to the repository); a relative one is joined
\* to the repository root.
EnsureAbsPath(v) ==
    IF v = "" THEN None
    ELSE IF IsAbs(v) THEN v
    ELSE JoinRoot(LStrip(v))

FlowTarget(fn, ln, f) == [function |-> fn, line |-> ln, file |-> f]

Targets ==
    {FlowTarget(fn, ln, EnsureAbsPath(fa)) :
        fn \in {EntryFn, CalleeFn}, ln \in 1..MaxReqLine, fa \in FileArgs}

\* ------------------------------------------------------------------------
\* LinearFlowRecorder
\* ------------------------------------------------------------------------
\* A recorder that puts the new event in front of the journal.
recordAtFront(evs, raw, p) ==
    << [function |-> raw.function, line |-> raw.line, file |-> raw.file,
        linear_index |-> Len(evs), pos |-> p] >> \o evs

\* record: append under the lock, linear_index = len(_events).  pos is the
\* position of the producing callback in the target's execution (history).
record(evs, raw, p) ==
    Append(evs, [function |-> raw.function, line |-> raw.line,
                 file |-> raw.file, linear_index |-> Len(evs), pos |-> p])

\* _match_event
MatchEvent(ev, fn, ln, fp) ==
    /\ ~(fn # None /\ ev.function # fn)
    /\ ~(fp # None /\ ev.file # fp)
    /\ ~(ev.line < ln)

Min(S) == CHOOSE x \in S : \A y \in S : x <= y

\* find_index; indexes are 0-based as in the code, None when nothing matches
FindIndex(evs, fn, ln, after_index, fp, allow_wrap) ==
    IF Len(evs) = 0 THEN NoIndex
    ELSE
      LET start0 == IF after_index # NoIndex THEN after_index + 1 ELSE 0
          start == IF start0 < 0 THEN 0 ELSE start0
          fwd == {i \in start..(Len(evs) - 1) : MatchEvent(evs[i + 1], fn, ln, fp)}
          wrap == IF allow_wrap /\ start > 0
                  THEN {i \in 0..(start - 1) : i < Len(evs) /\ MatchEvent(evs[i + 1], fn, ln, fp)}
                  ELSE {}
      IN  IF fwd # {} THEN Min(fwd)
          ELSE IF wrap # {} THEN Min(wrap)
          ELSE NoIndex

\* A slice that stops before the matched index.
SliceToIndexExclusive(evs, index) ==
    IF index < 0 \/ index >= Len(evs) THEN << >>
    ELSE SubSeq(evs, 1, index)

\* slice_to_index
SliceToIndex(evs, index) ==
    IF index < 0 \/ index >= Len(evs) THEN << >>
    ELSE SubSeq(evs, 1, index + 1)

\* A cursor that follows every served index.
MarkServedAlways(lsi, index) == index

\* A cursor that is put one past the served index.
MarkServedOneFurther(lsi, index) == IF index + 1 > lsi THEN index + 1 ELSE lsi

\* mark_served
MarkServed(lsi, index) == IF index > lsi THEN index ELSE lsi

\* latest_index
LatestIndex(evs) == IF Len(evs) = 0 THEN NoIndex ELSE Len(evs) - 1

\* build_flow_payload
BuildFlowPayload(evs, lsi, target_index, target) ==
    LET events_slice == SliceToIndex(evs, target_index)
    IN  IF events_slice = << >> THEN << >>
        ELSE LET last_event == events_slice[Len(events_slice)]
             IN << [requested_line |-> target.line,
                  requested_function |-> target.function,
                  linear_index |-> target_index,
                  line |-> last_event.line,
                  filename |-> last_event.file,
                  function |-> last_event.function,
                  events |-> events_slice,
                  last_served_index |-> lsi] >>

\* ------------------------------------------------------------------------
\* PersistentDebugger.user_line: the file rule (lines 816-836)
\* ------------------------------------------------------------------------
InTargetFunction(tfn, funcname) == tfn = None \/ funcname = tfn

\* A file rule that does not look at the pinned flag.
FileRuleIgnoresPin(tfile, pinned, tfn, cb) ==
    IF tfile = None THEN "migrate"
    ELSE IF cb.file # tfile THEN
        IF InTargetFunction(tfn, cb.function) /\ tfn # None THEN "migrate"
        ELSE "skip"
    ELSE "accept"

\* A file rule that follows every callee into its file while unpinned.
FileRuleFollowsAnyFile(tfile, pinned, tfn, cb) ==
    IF tfile = None THEN "migrate"
    ELSE IF cb.file # tfile THEN
        IF pinned THEN "skip" ELSE "migrate"
    ELSE "accept"

\* "skip", "migrate" (accept and move target_file), "accept"
FileRule(tfile, pinned, tfn, cb) ==
    IF tfile = None THEN "migrate"
    ELSE IF cb.file # tfile THEN
        IF pinned THEN "skip"
        ELSE IF InTargetFunction(tfn, cb.function) /\ tfn # None THEN "migrate"
        ELSE "skip"
    ELSE "accept"

\* The file rule as section 4.4.5.1 of the specification words it: a
\* callback is recorded when it comes from target_file, or, while unpinned,
\* from another file in the target function.  Used for the history only.
RuleAccepts(tfile, pinned, tfn, cb) ==
    \/ cb.file = tfile
    \/ ~pinned /\ tfn # None /\ cb.function = tfn

\* the stop test of line 890
StopHere(tline, lineno, in_target) ==
    tline # NoLine /\ lineno >= tline /\ in_target

\* ------------------------------------------------------------------------
\* wait_for_debugger
\* ------------------------------------------------------------------------
\* A timeout report that does not test whether the thread is alive.
TimeoutMessageNoLivenessTest(alive, exc) ==
    IF exc THEN "exception" ELSE "timeout"

\* after a timed-out wait (lines 1253-1263)
TimeoutMessage(alive, exc) ==
    IF ~alive THEN (IF exc THEN "exception" ELSE "thread died")
    ELSE "timeout"

\* A wait that does not look at thread_exception.
ReadyOutcomeIgnoresException(exc) == TRUE

\* after ready was observed (lines 1264-1268): TRUE when the wait succeeded
ReadyOutcome(exc) == ~exc

\* main: the exit status after a failed trace_to_target: sys.exit(1) for
\* the initial target (1346-1347); for a later one the loop is left with
\* break (1372-1373) and main returns, which leaves the status as it is
FailExitCode(is_initial, status) == IF is_initial THEN 1 ELSE status

VARIABLES
    prog, progEnd,          \* the target
    ip, wpc, in_target_function,       \* worker: next callback, position, local
    events, last_served_index,         \* LinearFlowRecorder
    target_line, target_function, target_file, pinned_target_file,
    ready_event, step_event, thread_exception,
    mainpc, current_target, next_index, initial, nreq, exit_code,
    \* history variables: accepted = positions of the callbacks the file rule
    \* lets through; lastPayload, lastOut, nerr, npay, respCount, errInfo = what
    \* was written to stderr; resumed = the current request has released the
    \* worker; stoppedSince = the worker has paused since that release;
    \* excDuring = the target raised between a release and a pause
    accepted, lastPayload, lastOut, nerr, npay, respCount, errInfo,
    resumed, excDuring, stoppedSince, endedBy, prev_target, ntargets,
    \* what the mode of the run fixes: event_callback = the debugger was built
    \* with the recorder as its callback (line 1228; the one of line 597 has
    \* none); invocation, stage, result = the arguments, the position and
    \* the output of a run of a metadata mode or of a function of
    \* linearizer.py, which start no debugger
    event_callback, invocation, stage, result

modeVars == <<event_callback, invocation, stage, result>>

vars == <<modeVars, prog, progEnd, ip, wpc, in_target_function, events, last_served_index,
          target_line, target_function, target_file, pinned_target_file,
          ready_event, step_event, thread_exception,
          mainpc, current_target, next_index, initial, nreq, exit_code,
          accepted, lastPayload, lastOut, nerr, npay, respCount, errInfo,
          resumed, excDuring, stoppedSince, endedBy, prev_target, ntargets>>

workerVars == <<ip, wpc, in_target_function>>
flowVars == <<events, last_served_index>>
dbgTargetVars == <<target_line, target_function, target_file, pinned_target_file>>
mainVars == <<mainpc, current_target, next_index, initial, nreq, exit_code>>
outVars == <<lastPayload, lastOut, nerr, npay, respCount, errInfo, endedBy, prev_target, ntargets>>

\* No metadata mode and no function of linearizer.py is running.
NoInvocation == invocation = << >> /\ stage = "idle" /\ result = << >>

\* State after main has built the recorder and the debugger and
\* run_function_once has started the thread (lines 1226-1235, 966-973).
Init ==
    /\ prog \in Programs
    /\ progEnd \in {"return", "raise"}
    /\ ip = 1
    /\ wpc = "run"
    /\ in_target_function = FALSE
    /\ events = << >>
    /\ last_served_index = -1
    /\ target_line = NoLine
    /\ target_function = None
    /\ target_file = FileA
    /\ pinned_target_file = FALSE
    /\ ready_event = FALSE
    /\ step_event = FALSE
    /\ thread_exception = FALSE
    /\ mainpc = "start"
    /\ current_target = FlowTarget(None, NoLine, None)
    /\ next_index = NoIndex
    /\ initial = TRUE
    /\ nreq = 0
    /\ exit_code = 0
    /\ accepted = << >>
    /\ lastPayload = << >>
    /\ lastOut = "none"
    /\ nerr = 0
    /\ npay = 0
    /\ respCount = 0
    /\ errInfo = << >>
    /\ resumed = FALSE
    /\ excDuring = FALSE
    /\ stoppedSince = FALSE
    /\ endedBy = None
    /\ prev_target = FlowTarget(None, NoLine, None)
    /\ ntargets = 0
    /\ event_callback = TRUE
    /\ NoInvocation


\* ------------------------------------------------------------------------
\* Worker thread: run_with_error_handling -> bdb.runctx -> user_line
\* ------------------------------------------------------------------------
\* The thread runs from the moment it is started: nothing in
\* run_with_error_handling waits on step, the first wait is the one of a
\* stop in user_line.  bdb calls user_line for every line of every frame
\* (reset and set_step leave stopframe at None).  Two callbacks have no
\* effect for the targets modelled here and are left out: the line of the
\* "<string>" frame that runctx executes (its file is no target file and
\* its function <module> is not requested, so the file rule skips it), and
\* user_return (its body needs last_event to be None at a return in
\* target_file, and the entry's first line is accepted or precedes every
\* line of target_file).
ThreadAlive == wpc # "dead"

\* user_line, lines 808-886: the file rule, then the event is built and
\* handed to the recorder when the debugger has a callback (882-884).  A
\* skipped callback returns at once.
WLine ==
    /\ wpc = "run"
    /\ ip <= Len(prog)
    /\ LET cb == prog[ip]
           rule == FileRule(target_file, pinned_target_file, target_function, cb)
       IN  /\ accepted' = IF RuleAccepts(target_file, pinned_target_file,
                                         target_function, cb)
                          THEN Append(accepted, ip) ELSE accepted
           /\ IF rule = "skip"
              THEN /\ ip' = ip + 1
                   /\ UNCHANGED <<wpc, in_target_function, events, target_file>>
              ELSE /\ in_target_function' = InTargetFunction(target_function, cb.function)
                   /\ target_file' = IF rule = "migrate" THEN cb.file ELSE target_file
                   /\ events' = IF event_callback THEN record(events, cb, ip)
                                ELSE events
                   /\ wpc' = "check"
                   /\ ip' = ip
    /\ UNCHANGED <<modeVars, prog, progEnd, last_served_index, target_line, target_function,
                   pinned_target_file, ready_event, step_event, thread_exception,
                   mainVars, outVars, resumed, excDuring, stoppedSince>>

\* user_line, lines 890-894: the stop test; at a stop ready is set first
WCheck ==
    /\ wpc = "check"
    /\ IF StopHere(target_line, prog[ip].line, in_target_function)
       THEN /\ ready_event' = TRUE
            /\ stoppedSince' = TRUE
            /\ wpc' = "clear"
            /\ ip' = ip
       ELSE /\ wpc' = "run"
            /\ ip' = ip + 1
            /\ UNCHANGED <<ready_event, stoppedSince>>
    /\ UNCHANGED <<modeVars, prog, progEnd, in_target_function, flowVars, dbgTargetVars,
                   step_event, thread_exception, mainVars, outVars, accepted,
                   resumed, excDuring>>

\* user_line, line 897: step is cleared after ready has been set
WClear ==
    /\ wpc = "clear"
    /\ step_event' = FALSE
    /\ wpc' = "wait"
    /\ UNCHANGED <<modeVars, prog, progEnd, ip, in_target_function, flowVars, dbgTargetVars,
                   ready_event, thread_exception, mainVars, outVars, accepted,
                   resumed, excDuring, stoppedSince>>

\* user_line, line 898: step_event.wait()
WWait ==
    /\ wpc = "wait"
    /\ step_event
    /\ wpc' = "run"
    /\ ip' = ip + 1
    /\ UNCHANGED <<modeVars, prog, progEnd, in_target_function, flowVars, dbgTargetVars,
                   ready_event, step_event, thread_exception, mainVars, outVars,
                   accepted, resumed, excDuring, stoppedSince>>

\* run_with_error_handling, lines 949-955: the target returned
WReturn ==
    /\ wpc = "run"
    /\ ip > Len(prog)
    /\ progEnd = "return"
    /\ ready_event' = IF ~ready_event /\ target_line # NoLine THEN TRUE ELSE ready_event
    /\ wpc' = "dead"
    /\ UNCHANGED <<modeVars, prog, progEnd, ip, in_target_function, flowVars, dbgTargetVars,
                   step_event, thread_exception, mainVars, outVars, accepted,
                   resumed, excDuring, stoppedSince>>

\* run_with_error_handling, lines 956-959: the target raised
WRaise ==
    /\ wpc = "run"
    /\ ip > Len(prog)
    /\ progEnd = "raise"
    /\ thread_exception' = TRUE
    /\ excDuring' = (resumed /\ ~stoppedSince)
    /\ wpc' = "raised"
    /\ UNCHANGED <<modeVars, prog, progEnd, ip, in_target_function, flowVars, dbgTargetVars,
                   ready_event, step_event, mainVars, outVars, accepted,
                   resumed, stoppedSince>>

\* run_with_error_handling, line 961, and the end of the thread
WRaiseReady ==
    /\ wpc = "raised"
    /\ ready_event' = TRUE
    /\ wpc' = "dead"
    /\ UNCHANGED <<modeVars, prog, progEnd, ip, in_target_function, flowVars, dbgTargetVars,
                   step_event, thread_exception, mainVars, outVars, accepted,
                   resumed, excDuring, stoppedSince>>

Worker == WLine \/ WCheck \/ WClear \/ WWait \/ WReturn \/ WRaise \/ WRaiseReady


\* ------------------------------------------------------------------------
\* Main thread: main, trace_to_target, wait_for_debugger
\* ------------------------------------------------------------------------
\* emit_error followed by the failure path of the caller: trace_to_target
\* returns False, main calls sys.exit(1) (initial target, 1346-1347) or
\* leaves the loop (1372-1373) and returns.
EmitErrorAndFail(msg, via) ==
    /\ nerr' = nerr + 1
    /\ lastOut' = "error"
    /\ errInfo' = << [msg |-> msg, via |-> via, alive |-> ThreadAlive,
                     exc |-> thread_exception] >>
    /\ respCount' = respCount + 1
    /\ mainpc' = "shutdown"
    /\ exit_code' = FailExitCode(initial, exit_code)
    /\ endedBy' = "error"
    /\ UNCHANGED <<lastPayload, npay, prev_target, ntargets>>

\* lines 1338-1346: the initial target, from --stop_line / --stop_location
\* and --stop_file
MainStart ==
    /\ mainpc = "start"
    /\ \E t \in Targets : current_target' = t
    /\ prev_target' = current_target
    /\ ntargets' = ntargets + 1
    /\ mainpc' = "find1"
    /\ respCount' = 0
    /\ resumed' = FALSE
    /\ UNCHANGED <<modeVars, prog, progEnd, workerVars, flowVars, dbgTargetVars, ready_event,
                   step_event, thread_exception, next_index, initial, nreq,
                   exit_code, accepted, lastPayload, lastOut, nerr, npay, errInfo,
                   excDuring, stoppedSince, endedBy>>

\* lines 1354-1361: an empty line or "0" leaves the loop; main returns
ReadEmpty ==
    /\ mainpc = "read"
    /\ nreq < MaxReq
    /\ nreq' = nreq + 1
    /\ mainpc' = "shutdown"
    /\ endedBy' = "empty"
    /\ UNCHANGED <<modeVars, prog, progEnd, workerVars, flowVars, dbgTargetVars, ready_event,
                   step_event, thread_exception, current_target, next_index,
                   initial, exit_code, accepted, lastPayload, lastOut, nerr, npay,
                   respCount, errInfo, resumed, excDuring, stoppedSince,
                   prev_target, ntargets>>

\* A skipped request answered by an error event (emit_error in the
\* handler of line 1365) before the loop goes on.
ReadMalformedAnswers ==
    /\ mainpc = "read"
    /\ nreq < MaxReq
    /\ nreq' = nreq + 1
    /\ nerr' = nerr + 1
    /\ lastOut' = "error"
    /\ UNCHANGED <<modeVars, prog, progEnd, workerVars, flowVars, dbgTargetVars, ready_event,
                   step_event, thread_exception, mainpc, current_target, next_index,
                   initial, exit_code, accepted, lastPayload, npay, respCount, errInfo,
                   endedBy, prev_target, ntargets, resumed, excDuring, stoppedSince>>

\* lines 1363-1367: a line that does not parse is logged and skipped
ReadMalformed ==
    /\ mainpc = "read"
    /\ nreq < MaxReq
    /\ nreq' = nreq + 1
    /\ UNCHANGED <<modeVars, prog, progEnd, workerVars, flowVars, dbgTargetVars, ready_event,
                   step_event, thread_exception, mainpc, current_target, next_index,
                   initial, exit_code, accepted, outVars, resumed, excDuring,
                   stoppedSince>>

\* lines 1363-1372: a request that parses into a FlowTarget
ReadTarget ==
    /\ mainpc = "read"
    /\ nreq < MaxReq
    /\ nreq' = nreq + 1
    /\ \E t \in Targets : current_target' = t
    /\ prev_target' = current_target
    /\ ntargets' = ntargets + 1
    /\ mainpc' = "find1"
    /\ respCount' = 0
    /\ resumed' = FALSE
    /\ UNCHANGED <<modeVars, prog, progEnd, workerVars, flowVars, dbgTargetVars, ready_event,
                   step_event, thread_exception, next_index, initial, exit_code,
                   accepted, lastPayload, lastOut, nerr, npay, errInfo, excDuring,
                   stoppedSince, endedBy>>

\* trace_to_target, line 1276: search after the cursor
Find1 ==
    /\ mainpc = "find1"
    /\ next_index' = FindIndex(events, current_target.function, current_target.line,
                               last_served_index, current_target.file, FALSE)
    /\ mainpc' = IF next_index' # NoIndex THEN "serve" ELSE "find2"
    /\ UNCHANGED <<modeVars, prog, progEnd, workerVars, flowVars, dbgTargetVars, ready_event,
                   step_event, thread_exception, current_target, initial, nreq,
                   exit_code, accepted, outVars, resumed, excDuring, stoppedSince>>

\* the decision of lines 1279-1281 on the result of the second search
EarlierAccepted(earlier_index, lsi) ==
    earlier_index # NoIndex /\ earlier_index <= lsi

\* trace_to_target, lines 1279-1282: search the whole journal
Find2 ==
    /\ mainpc = "find2"
    /\ LET earlier_index == FindIndex(events, current_target.function,
                                      current_target.line, NoIndex,
                                      current_target.file, TRUE)
       IN  IF EarlierAccepted(earlier_index, last_served_index)
           THEN /\ next_index' = earlier_index
                /\ mainpc' = "serve"
           ELSE /\ next_index' = NoIndex
                /\ mainpc' = "setfile"
    /\ UNCHANGED <<modeVars, prog, progEnd, workerVars, flowVars, dbgTargetVars, ready_event,
                   step_event, thread_exception, current_target, initial, nreq,
                   exit_code, accepted, outVars, resumed, excDuring, stoppedSince>>

\* trace_to_target, lines 1284-1286
SetFile ==
    /\ mainpc = "setfile"
    /\ target_file' = IF current_target.file # None THEN current_target.file
                      ELSE target_file
    /\ pinned_target_file' = (current_target.file # None)
    /\ mainpc' = "setline"
    /\ UNCHANGED <<modeVars, prog, progEnd, workerVars, flowVars, target_line, target_function,
                   ready_event, step_event, thread_exception, current_target,
                   next_index, initial, nreq, exit_code, accepted, outVars,
                   resumed, excDuring, stoppedSince>>

\* continue_until, line 907
SetLine ==
    /\ mainpc = "setline"
    /\ target_line' = current_target.line
    /\ mainpc' = "setfunc"
    /\ UNCHANGED <<modeVars, prog, progEnd, workerVars, flowVars, target_function, target_file,
                   pinned_target_file, ready_event, step_event, thread_exception,
                   current_target, next_index, initial, nreq, exit_code, accepted,
                   outVars, resumed, excDuring, stoppedSince>>

\* continue_until, line 908
SetFunction ==
    /\ mainpc = "setfunc"
    /\ target_function' = current_target.function
    /\ mainpc' = "clear"
    /\ UNCHANGED <<modeVars, prog, progEnd, workerVars, flowVars, target_line, target_file,
                   pinned_target_file, ready_event, step_event, thread_exception,
                   current_target, next_index, initial, nreq, exit_code, accepted,
                   outVars, resumed, excDuring, stoppedSince>>

\* continue_until, line 909
ClearReady ==
    /\ mainpc = "clear"
    /\ ready_event' = FALSE
    /\ resumed' = TRUE
    /\ stoppedSince' = FALSE
    /\ mainpc' = "setstep"
    /\ UNCHANGED <<modeVars, prog, progEnd, workerVars, flowVars, dbgTargetVars, step_event,
                   thread_exception, current_target, next_index, initial, nreq,
                   exit_code, accepted, outVars, excDuring>>

\* continue_until, line 910
SetStep ==
    /\ mainpc = "setstep"
    /\ step_event' = TRUE
    /\ mainpc' = "wait"
    /\ UNCHANGED <<modeVars, prog, progEnd, workerVars, flowVars, dbgTargetVars, ready_event,
                   thread_exception, current_target, next_index, initial, nreq,
                   exit_code, accepted, outVars, resumed, excDuring, stoppedSince>>

\* wait_for_debugger, lines 1251 and 1264-1268: ready was set within 30 s
WaitReady ==
    /\ mainpc = "wait"
    /\ ready_event
    /\ IF ReadyOutcome(thread_exception)
       THEN /\ mainpc' = "find3"
            /\ UNCHANGED <<exit_code, outVars>>
       ELSE EmitErrorAndFail("exception", "ready")
    /\ UNCHANGED <<modeVars, prog, progEnd, workerVars, flowVars, dbgTargetVars, ready_event,
                   step_event, thread_exception, current_target, next_index,
                   initial, nreq, accepted, resumed, excDuring, stoppedSince>>

\* wait_for_debugger, lines 1251-1252: 30 s passed and ready is not set
\* (the target may take any time for a line, so this can happen whenever
\* ready is clear)
WaitTimeout ==
    /\ mainpc = "wait"
    /\ ~ready_event
    /\ mainpc' = "alive"
    /\ UNCHANGED <<modeVars, prog, progEnd, workerVars, flowVars, dbgTargetVars, ready_event,
                   step_event, thread_exception, current_target, next_index,
                   initial, nreq, exit_code, accepted, outVars, resumed,
                   excDuring, stoppedSince>>

\* wait_for_debugger, lines 1253-1263: the liveness test and its error
TimeoutError ==
    /\ mainpc = "alive"
    /\ EmitErrorAndFail(TimeoutMessage(ThreadAlive, thread_exception), "timeout")
    /\ UNCHANGED <<modeVars, prog, progEnd, workerVars, flowVars, dbgTargetVars, ready_event,
                   step_event, thread_exception, current_target, next_index,
                   initial, nreq, accepted, resumed, excDuring, stoppedSince>>

\* trace_to_target, line 1290: search again after the worker has stopped
Find3 ==
    /\ mainpc = "find3"
    /\ next_index' = FindIndex(events, current_target.function, current_target.line,
                               last_served_index, current_target.file, FALSE)
    /\ mainpc' = IF next_index' # NoIndex THEN "serve" ELSE "latest"
    /\ UNCHANGED <<modeVars, prog, progEnd, workerVars, flowVars, dbgTargetVars, ready_event,
                   step_event, thread_exception, current_target, initial, nreq,
                   exit_code, accepted, outVars, resumed, excDuring, stoppedSince>>

\* trace_to_target, lines 1291-1297: fall back to the latest event
Latest ==
    /\ mainpc = "latest"
    /\ IF LatestIndex(events) = NoIndex
       THEN /\ EmitErrorAndFail("no events", "latest")
            /\ UNCHANGED next_index
       ELSE /\ next_index' = LatestIndex(events)
            /\ mainpc' = "serve"
            /\ UNCHANGED <<exit_code, outVars>>
    /\ UNCHANGED <<modeVars, prog, progEnd, workerVars, flowVars, dbgTargetVars, ready_event,
                   step_event, thread_exception, current_target, initial, nreq,
                   accepted, resumed, excDuring, stoppedSince>>

\* Serve without line 1303: the cursor moves and nothing is sent.
ServeKeepsSilent ==
    /\ mainpc = "serve"
    /\ last_served_index' = MarkServed(last_served_index, next_index)
    /\ mainpc' = "read"
    /\ initial' = FALSE
    /\ UNCHANGED <<modeVars, prog, progEnd, workerVars, events, dbgTargetVars, ready_event,
                   step_event, thread_exception, current_target, next_index, nreq,
                   accepted, resumed, excDuring, stoppedSince, exit_code, outVars>>

\* trace_to_target, lines 1298-1304: move the cursor, build and send the
\* payload; main then goes on to the request loop
Serve ==
    /\ mainpc = "serve"
    /\ last_served_index' = MarkServed(last_served_index, next_index)
    /\ LET payload == BuildFlowPayload(events, last_served_index', next_index,
                                       current_target)
       IN  IF payload = << >>
           THEN /\ EmitErrorAndFail("no payload", "serve")
                /\ UNCHANGED initial
           ELSE /\ lastPayload' = payload
                /\ npay' = npay + 1
                /\ respCount' = respCount + 1
                /\ lastOut' = "payload"
                /\ mainpc' = "read"
                /\ initial' = FALSE
                /\ UNCHANGED <<exit_code, nerr, errInfo, endedBy, prev_target, ntargets>>
    /\ UNCHANGED <<modeVars, prog, progEnd, workerVars, events, dbgTargetVars, ready_event,
                   step_event, thread_exception, current_target, next_index, nreq,
                   accepted, resumed, excDuring, stoppedSince>>

Main ==
    \/ MainStart \/ ReadEmpty \/ ReadMalformed \/ ReadTarget
    \/ Find1 \/ Find2 \/ SetFile \/ SetLine \/ SetFunction \/ ClearReady \/ SetStep
    \/ WaitReady \/ WaitTimeout \/ TimeoutError \/ Find3 \/ Latest \/ Serve

\* The interpreter ends the process once the main thread has ended and no
\* non-daemon thread is alive; the worker is created non-daemon (line 966).
ProcessTerminated == mainpc = "shutdown" /\ ~ThreadAlive

Next == Worker \/ Main

Spec == Init /\ [][Next]_vars


\* ------------------------------------------------------------------------
\* Properties
\* ------------------------------------------------------------------------
HasPayload == lastPayload # << >>
Payload == lastPayload[1]

SameLine(ev, cb) ==
    ev.function = cb.function /\ ev.line = cb.line /\ ev.file = cb.file

C2_JournalKeepsExecutionOrder ==
    /\ \A i, j \in 1..Len(events) : i < j => events[i].pos < events[j].pos
    /\ \A i \in 1..Len(events) :
         events[i].pos \in 1..Len(prog) /\ SameLine(events[i], prog[events[i].pos])

\* the worker has appended to the journal after the main thread read it
C2_Witness ==
    /\ HasPayload
    /\ Len(events) >= 2
    /\ Len(events) > Payload.linear_index + 1
    /\ wpc = "check"

Max2(a, b) == IF a >= b THEN a ELSE b

\* C3: last_served_index never decreases, and serving index m leaves it at
\* max(previous value, m).
C3_CursorMonotone ==
    [][ /\ last_served_index' >= last_served_index
        /\ (mainpc = "serve" /\ mainpc' = "read") =>
              last_served_index' = Max2(last_served_index, next_index)
        /\ ~(mainpc = "serve") => last_served_index' = last_served_index ]_vars

\* a replay was served below the cursor
C3_Witness ==
    /\ HasPayload
    /\ lastOut = "payload"
    /\ Payload.linear_index < last_served_index

\* C4: the events of a payload served for index m are journal[0..m] with
\* linear_index i at place i, and its line, filename and function are
\* those of journal[m].
C4_PayloadIsJournalPrefix ==
    HasPayload =>
        LET m == Payload.linear_index
            evs == Payload.events
        IN  /\ m >= 0 /\ m < Len(events)
            /\ Len(evs) = m + 1
            /\ \A i \in 0..m : evs[i + 1] = events[i + 1] /\ evs[i + 1].linear_index = i
            /\ Payload.line = events[m + 1].line
            /\ Payload.filename = events[m + 1].file
            /\ Payload.function = events[m + 1].function

\* a payload of several events that ends before the end of the journal
C4_Witness ==
    /\ HasPayload
    /\ Payload.linear_index >= 1
    /\ Len(events) > Payload.linear_index + 1


\* The scenario of C5: the entry calls k at a line before L, the first
\* target was h at line L without a file, the second is k pinned to b.py,
\* and a payload has been sent for the second.
CallBefore(L) ==
    \E i \in 2..Len(prog) :
        /\ prog[i].function = CalleeFn
        /\ prog[i - 1].function = EntryFn
        /\ prog[i - 1].line < L

CrossFileRequests ==
    /\ ntargets = 2
    /\ prev_target.function = EntryFn
    /\ prev_target.file = None
    /\ CallBefore(prev_target.line)
    /\ current_target.function = CalleeFn
    /\ current_target.file = FileB

SecondPayloadSent ==
    /\ CrossFileRequests
    /\ mainpc \in {"read", "shutdown"}
    /\ lastOut = "payload"
    /\ respCount = 1

Matches ==
    {i \in 0..(Len(events) - 1) :
        MatchEvent(events[i + 1], current_target.function, current_target.line,
                   current_target.file)}

\* C6: a request is served from the journal whenever a journal event
\* matches it, with the first match after the cursor or else the first
\* match up to the cursor; the worker is resumed only when no journal
\* event matches.
C6_ServedFromJournalWheneverMatched ==
    [][ /\ (mainpc = "find2" /\ mainpc' = "setfile") => Matches = {}
        /\ (mainpc \in {"find1", "find2"} /\ mainpc' = "serve") =>
              LET after == {i \in Matches : i > last_served_index}
              IN  next_index' = IF after # {} THEN Min(after) ELSE Min(Matches) ]_vars

\* C7: when the target raises while the worker is advancing towards a
\* requested location, the exception is recorded and ready is set, the
\* request is answered with exactly one error event and no payload, and
\* nothing is emitted after an error event.
C7_WorkerExceptionSingleError ==
    /\ nerr <= 1
    /\ (nerr = 1 => lastOut = "error" /\ mainpc = "shutdown")
    /\ (excDuring =>
          /\ thread_exception
          /\ mainpc \in {"setstep", "wait", "alive", "shutdown"}
          /\ (wpc = "dead" /\ mainpc \in {"setstep", "wait"} => ready_event)
          /\ (mainpc = "shutdown" =>
                nerr = 1 /\ lastOut = "error" /\ respCount = 1 /\ endedBy = "error"))

\* the main thread woke on ready and reported the exception
C7_Witness ==
    /\ excDuring
    /\ mainpc = "shutdown"
    /\ errInfo # << >>
    /\ errInfo[1].via = "ready"
    /\ errInfo[1].msg = "exception"
    /\ npay >= 1

FatalMessages == {"exception", "thread died", "timeout"}

\* C8: a session ended by a worker exception, a dead worker or a timeout
\* exits with code 1, for the initial target and for later requests alike;
\* a session ended by an empty or "0" request exits with code 0.
C8_ExitCodes ==
    mainpc = "shutdown" =>
        /\ (endedBy = "error" /\ errInfo[1].msg \in FatalMessages => exit_code = 1)
        /\ (endedBy = "empty" => exit_code = 0)

\* C9: after a timed-out wait the error is the recorded exception when the
\* worker is dead and recorded one, the thread-died error when it is dead
\* without one, and the timeout error when it is alive; it is the only
\* error event and no further request is processed.
C9_TimeoutReport ==
    (errInfo # << >> /\ errInfo[1].via = "timeout") =>
        LET e == errInfo[1]
        IN  /\ (~e.alive /\ e.exc) => e.msg = "exception"
            /\ (~e.alive /\ ~e.exc) => e.msg = "thread died"
            /\ e.alive => e.msg = "timeout"
            /\ e.exc => progEnd = "raise"
            /\ ~e.alive => wpc = "dead"
            /\ nerr = 1
            /\ respCount = 1
            /\ lastOut = "error"
            /\ mainpc = "shutdown"

\* the wait timed out on a worker that had died with a recorded exception
C9_Witness ==
    /\ errInfo # << >>
    /\ errInfo[1].via = "timeout"
    /\ ~errInfo[1].alive
    /\ errInfo[1].exc
    /\ errInfo[1].msg = "exception"

\* the other two cases of the liveness test
C9_DiedCase ==
    errInfo # << >> /\ errInfo[1].via = "timeout" /\ errInfo[1].msg = "thread died"

C9_AliveCase ==
    errInfo # << >> /\ errInfo[1].via = "timeout" /\ errInfo[1].msg = "timeout"

WorkerBlockedOnStep == wpc = "wait" /\ ~step_event

\* C10: an empty or "0" request emits nothing, does not set step and does
\* not touch the journal or the cursor, and the process then terminates
\* although the worker is still blocked on step.
C10_EmptyRequestEndsProcess ==
    /\ [][ (mainpc = "read" /\ endedBy' = "empty") =>
              /\ UNCHANGED <<lastOut, npay, nerr, step_event, events, last_served_index>>
              /\ mainpc' = "shutdown" ]_vars
    /\ [](endedBy = "empty" /\ WorkerBlockedOnStep => ProcessTerminated)


\* ------------------------------------------------------------------------
\* extract-args, runtime mode: extract_call_arguments_runtime runs the
\* calling entry h under a second debugger up to the call line, reads the
\* caller's frame and evaluates the call (lines 566-611), and main prints
\* the result and calls sys.exit(0) (lines 1080-1101)
\* ------------------------------------------------------------------------
\* State after run_function_once (line 600): the debugger has no callback,
\* is pinned to stop_file = ensure_abs_path(parent_file) or the caller's
\* file (597-599), and the thread runs.  current_target holds the
\* arguments of the continue_until of line 601.
InitExtract ==
    /\ prog \in Programs
    /\ progEnd \in {"return", "raise"}
    /\ ip = 1
    /\ wpc = "run"
    /\ in_target_function = FALSE
    /\ events = << >>
    /\ last_served_index = -1
    /\ target_line = NoLine
    /\ target_function = None
    /\ \E parent_file \in FileArgs :
         target_file = IF EnsureAbsPath(parent_file) # None
                       THEN EnsureAbsPath(parent_file) ELSE FileA
    /\ pinned_target_file = TRUE
    /\ ready_event = FALSE
    /\ step_event = FALSE
    /\ thread_exception = FALSE
    /\ mainpc = "setline"
    /\ \E call_line \in 1..MaxReqLine :
         current_target = FlowTarget(EntryFn, call_line, None)
    /\ next_index = NoIndex
    /\ initial = TRUE
    /\ nreq = 0
    /\ exit_code = 0
    /\ accepted = << >>
    /\ lastPayload = << >>
    /\ lastOut = "none"
    /\ nerr = 0
    /\ npay = 0
    /\ respCount = 0
    /\ errInfo = << >>
    /\ resumed = FALSE
    /\ excDuring = FALSE
    /\ stoppedSince = FALSE
    /\ endedBy = None
    /\ prev_target = FlowTarget(None, NoLine, None)
    /\ ntargets = 0
    /\ event_callback = FALSE
    /\ NoInvocation

\* line 602: wait_for_event(timeout=30.0) returned True
XWaitReady ==
    /\ mainpc = "wait"
    /\ ready_event
    /\ mainpc' = "release"
    /\ UNCHANGED <<modeVars, prog, progEnd, workerVars, flowVars, dbgTargetVars,
                   ready_event, step_event, thread_exception, current_target,
                   next_index, initial, nreq, exit_code, accepted, outVars,
                   resumed, excDuring, stoppedSince>>

\* lines 602-603: the wait timed out, the result is the time-out error
XWaitTimeout ==
    /\ mainpc = "wait"
    /\ ~ready_event
    /\ lastOut' = "error"
    /\ mainpc' = "print"
    /\ UNCHANGED <<modeVars, prog, progEnd, workerVars, flowVars, dbgTargetVars,
                   ready_event, step_event, thread_exception, current_target,
                   next_index, initial, nreq, exit_code, accepted, lastPayload,
                   nerr, npay, respCount, errInfo, endedBy, prev_target, ntargets,
                   resumed, excDuring, stoppedSince>>

\* last_raw_locals and last_raw_globals (lines 838, 873): the frame of the
\* last callback user_line accepted, None before the first one
LastRawFrame ==
    IF accepted = << >> THEN [function |-> None, file |-> None, line |-> NoLine]
    ELSE prog[accepted[Len(accepted)]]

\* lines 604-607: the frame is read, the worker is released with
\* step_event.set() (target_line and target_function stay as they are), and
\* extract_call_arguments builds the result from the frame read.
\* lastPayload keeps the frame the arguments are evaluated in and whether
\* the worker was paused in user_line when it was read.
XRelease ==
    /\ mainpc = "release"
    /\ lastPayload' = << [frame |-> LastRawFrame,
                          paused |-> wpc \in {"clear", "wait"}] >>
    /\ step_event' = TRUE
    /\ lastOut' = "args"
    /\ mainpc' = "print"
    /\ UNCHANGED <<modeVars, prog, progEnd, workerVars, flowVars, dbgTargetVars,
                   ready_event, thread_exception, current_target,
                   next_index, initial, nreq, exit_code, accepted,
                   nerr, npay, respCount, errInfo, endedBy, prev_target, ntargets,
                   resumed, excDuring, stoppedSince>>

\* lines 1099-1101: print(json.dumps(result)) and sys.exit(0): the main
\* thread ends
XPrintAndExit ==
    /\ mainpc = "print"
    /\ respCount' = respCount + 1
    /\ exit_code' = 0
    /\ mainpc' = "shutdown"
    /\ UNCHANGED <<modeVars, prog, progEnd, workerVars, flowVars, dbgTargetVars,
                   ready_event, step_event, thread_exception, current_target,
                   next_index, initial, nreq, accepted, lastPayload, lastOut,
                   nerr, npay, errInfo, endedBy, prev_target, ntargets,
                   resumed, excDuring, stoppedSince>>

NextExtract ==
    \/ Worker
    \/ SetLine \/ SetFunction \/ ClearReady \/ SetStep
    \/ XWaitReady \/ XWaitTimeout \/ XRelease \/ XPrintAndExit

SpecExtract == InitExtract /\ [][NextExtract]_vars

\* C11: an extract-args run in runtime mode prints exactly one response,
\* and once the caller's frame has been captured at a stop and the worker
\* released, the worker is not left blocked on step when the main thread
\* has ended (nothing could set step any more, and the thread is not a
\* daemon, so the process would not exit).
C11_ExtractRunEndsProcess ==
    (mainpc = "shutdown" /\ lastOut = "args" /\ stoppedSince) =>
        /\ respCount = 1
        /\ ~WorkerBlockedOnStep


\* ------------------------------------------------------------------------
\* Runs that start no debugger: the metadata modes of tracer.py and the
\* functions of linearizer.py and find_call_sites.py.  invocation holds the
\* arguments, result the output, stage the position of the run.
\* ------------------------------------------------------------------------
tracerVars == <<prog, progEnd, workerVars, flowVars, dbgTargetVars, ready_event,
                step_event, thread_exception, mainVars, outVars, accepted,
                resumed, excDuring, stoppedSince>>

\* No debugger is built and no thread is started.
NotTracing ==
    /\ prog = << >>
    /\ progEnd = "return"
    /\ ip = 1
    /\ wpc = "dead"
    /\ in_target_function = FALSE
    /\ events = << >>
    /\ last_served_index = -1
    /\ target_line = NoLine
    /\ target_function = None
    /\ target_file = None
    /\ pinned_target_file = FALSE
    /\ ready_event = FALSE
    /\ step_event = FALSE
    /\ thread_exception = FALSE
    /\ mainpc = "offline"
    /\ current_target = FlowTarget(None, NoLine, None)
    /\ next_index = NoIndex
    /\ initial = TRUE
    /\ nreq = 0
    /\ exit_code = 0
    /\ accepted = << >>
    /\ lastPayload = << >>
    /\ lastOut = "none"
    /\ nerr = 0
    /\ npay = 0
    /\ respCount = 0
    /\ errInfo = << >>
    /\ resumed = FALSE
    /\ excDuring = FALSE
    /\ stoppedSince = FALSE
    /\ endedBy = None
    /\ prev_target = FlowTarget(None, NoLine, None)
    /\ ntargets = 0
    /\ event_callback = FALSE

\* The sequences without repetition of at most n elements of S.
DistinctSeqs(S, n) ==
    {s \in UNION {[1..k -> S] : k \in 0..n} :
        \A i, j \in 1..Len(s) : i # j => s[i] # s[j]}

\* The indexes of s, in order, that satisfy Keep.
KeptIndexes(s, Keep(_)) == SelectSeq([i \in 1..Len(s) |-> i], Keep)

\* ------------------------------------------------------------------------
\* get_function_signature (tracer.py 128-374) on the module's syntax tree
\* ------------------------------------------------------------------------
MaxParams == 2     \* ordinary positional parameters of a definition
MaxNesting == 2    \* classes and functions around a definition

NoDefault == ""    \* None in param_defaults and kw_defaults

\* ast.arguments: defaults are the texts of the default expressions of the
\* last Len(defaults) of posonlyargs + args; kw_defaults is parallel to
\* kwonlyargs, with None where there is none.
Arguments(posonlyargs, args, kwonlyargs, defaults, kw_defaults) ==
    [posonlyargs |-> posonlyargs, args |-> args, kwonlyargs |-> kwonlyargs,
     defaults |-> defaults, kw_defaults |-> kw_defaults]

NoArguments == Arguments(<< >>, << >>, << >>, << >>, << >>)

FunctionDef(name, args, body) ==
    [type |-> "FunctionDef", name |-> name, args |-> args, body |-> body]

ClassDef(name, body) ==
    [type |-> "ClassDef", name |-> name, args |-> NoArguments, body |-> body]

\* The definitions considered: def f(p, /, a.., *, z) with the
\* defaults at the end, as Python requires.
ParamNames == {"self", "cls", "x", "y"}

ArgumentsSet ==
    {Arguments(c.po, c.ar, c.ko, [i \in 1..c.n |-> "None"],
               IF c.ko = << >> THEN << >> ELSE <<c.kd>>) :
        c \in {c \in [po : {<< >>, <<"p">>}, ar : DistinctSeqs(ParamNames, MaxParams),
                      ko : {<< >>, <<"z">>}, n : 0..(MaxParams + 1),
                      kd : {NoDefault, "3"}] :
                 /\ c.n <= Len(c.po) + Len(c.ar)
                 /\ (c.ko = << >> => c.kd = NoDefault)}}

ContainerName(type, depth) ==
    IF type = "ClassDef" THEN <<"C1", "C2", "C3">>[depth]
    ELSE <<"o1", "o2", "o3">>[depth]

\* def f inside the containers kinds[depth..], outermost first
RECURSIVE Nest(_, _, _)
Nest(kinds, depth, target) ==
    IF depth > Len(kinds) THEN target
    ELSE IF kinds[depth] = "ClassDef"
         THEN ClassDef(ContainerName("ClassDef", depth),
                       <<Nest(kinds, depth + 1, target)>>)
         ELSE FunctionDef(ContainerName("FunctionDef", depth), NoArguments,
                          <<Nest(kinds, depth + 1, target)>>)

FnPath(kinds) ==
    [d \in 1..Len(kinds) |-> ContainerName(kinds[d], d)] \o <<"f">>

\* is_top_level_entry_name (the names here need no strip() or lower())
IsTopLevelEntryName(name) == name \in {"<top-level>", "<module>"}

\* the first node of nodes with one of the types and the name, as a
\* sequence of at most one node
FirstNode(nodes, types, name) ==
    LET hits == {i \in 1..Len(nodes) :
                    nodes[i].type \in types /\ nodes[i].name = name}
    IN  IF hits = {} THEN << >> ELSE <<nodes[Min(hits)]>>

\* lines 209-236: the walk for a path of three or more names
RECURSIVE Traverse(_, _, _)
Traverse(current_nodes, fn_path, i) ==
    LET node == FirstNode(current_nodes, {"FunctionDef", "ClassDef"}, fn_path[i])
    IN  IF node = << >> THEN << >>
        ELSE IF i = Len(fn_path)
             THEN (IF node[1].type = "FunctionDef" THEN node ELSE << >>)
             ELSE Traverse(node[1].body, fn_path, i + 1)

\* lines 176-236: the definition the path names, << >> when none is found
FindTargetFunc(body, fn_path) ==
    IF Len(fn_path) = 1 THEN FirstNode(body, {"FunctionDef"}, fn_path[1])
    ELSE IF Len(fn_path) = 2
    THEN LET cls == FirstNode(body, {"ClassDef"}, fn_path[1])
             method == IF cls = << >> THEN << >>
                       ELSE FirstNode(cls[1].body, {"FunctionDef"}, fn_path[2])
             outer == FirstNode(body, {"FunctionDef"}, fn_path[1])
         IN  IF method # << >> THEN method
             ELSE IF outer = << >> THEN << >>
             ELSE FirstNode(outer[1].body, {"FunctionDef"}, fn_path[2])
    ELSE Traverse(body, fn_path, 1)

\* line 272
IsMethod(fn_path) == Len(fn_path) = 2

\* lines 265-371: the parallel lists built from target_func.args.args.  A
\* default is reported as the text ast.unparse gives (Python 3.9 or later).
SignatureOf(target_func, fn_path) ==
    LET a == target_func.args
        total_args == Len(a.args)
        defaults_count == Len(a.defaults)
        is_method == IsMethod(fn_path)
        Kept(i) == ~(is_method /\ a.args[i] \in {"self", "cls"})
        kept == KeptIndexes(a.args, Kept)
        default_index(i) == (i - 1) - (total_args - defaults_count)
        HasDefault(i) == default_index(i) >= 0 /\ default_index(i) < defaults_count
    IN  [error |-> FALSE,
         params |-> [j \in 1..Len(kept) |-> a.args[kept[j]]],
         param_defaults |->
            [j \in 1..Len(kept) |->
                IF HasDefault(kept[j]) THEN a.defaults[default_index(kept[j]) + 1]
                ELSE NoDefault],
         param_required |-> [j \in 1..Len(kept) |-> ~HasDefault(kept[j])]]

SignatureError ==
    [error |-> TRUE, params |-> << >>, param_defaults |-> << >>,
     param_required |-> << >>]

\* get_function_signature; the import fallback of lines 238-259 is not
\* reached by a definition the tree holds
GetFunctionSignature(body, fn_path) ==
    IF Len(fn_path) = 1 /\ IsTopLevelEntryName(fn_path[1])
    THEN [error |-> FALSE, params |-> << >>, param_defaults |-> << >>,
          param_required |-> << >>]
    ELSE LET target_func == FindTargetFunc(body, fn_path)
         IN  IF target_func = << >> THEN SignatureError
             ELSE SignatureOf(target_func[1], fn_path)


\* ------------------------------------------------------------------------
\* Argument filtering: main (tracer.py 1166-1207) for the entry's
\* args_json, extract_call_arguments (436-560) for a call of the callee
\* ------------------------------------------------------------------------
MaxArgs == 2       \* positional arguments of a call

KeywordNames == {"x", "y", "w"}

\* lines 512 and 1182: the keywords that name a parameter
FilterKwargs(params, kwargs) == {k \in kwargs : \E i \in 1..Len(params) : params[i] = k}

\* lines 519-520 and 1190-1191
MaxPositional(params, filtered_kwargs) ==
    Cardinality({i \in 1..Len(params) : params[i] \notin filtered_kwargs})

\* lines 523-527 and 1193-1195
LimitPositional(args_list, max_positional) ==
    IF Len(args_list) > max_positional THEN SubSeq(args_list, 1, max_positional)
    ELSE args_list

\* lines 1178-1197: what main passes to the entry
FilterEntryArguments(sig_result, args_list, kwargs_dict) ==
    IF sig_result.error
    THEN [error |-> FALSE, args |-> args_list, kwargs |-> kwargs_dict]
    ELSE LET filtered_kwargs == FilterKwargs(sig_result.params, kwargs_dict)
         IN  [error |-> FALSE,
              args |-> LimitPositional(args_list,
                          MaxPositional(sig_result.params, filtered_kwargs)),
              kwargs |-> filtered_kwargs]

\* lines 452-457
ParamsWithDefaults(accepted_params, param_defaults) ==
    {accepted_params[i] :
        i \in {i \in 1..Len(param_defaults) :
                  i <= Len(accepted_params) /\ param_defaults[i] # NoDefault}}

\* A check after filtering that finds nothing missing.
MissingAfterFilteringNone(params, with_defaults, filtered_args, filtered_kwargs) == {}

\* lines 533-539: the required parameters that neither a keyword nor a
\* position binds (i is 0-based in the code)
MissingAfterFiltering(params, with_defaults, filtered_args, filtered_kwargs) ==
    {params[i] :
        i \in {i \in 1..Len(params) :
                  /\ params[i] \notin with_defaults
                  /\ params[i] \notin filtered_kwargs
                  /\ i - 1 >= Len(filtered_args)}}

ArgsError == [error |-> TRUE, args |-> << >>, kwargs |-> {}]

\* extract_call_arguments from line 436 on.  call_args[i] tells whether the
\* i-th positional argument of the call evaluates; a value is named by the
\* place of its argument in the call.  keywords maps a name to "ok",
\* "fail" (it does not evaluate) or "absent".
ExtractCallArguments(sig_result, call_args, keywords) ==
    LET accepted_params == IF sig_result.error THEN << >> ELSE sig_result.params
        param_defaults == IF sig_result.error THEN << >>
                          ELSE sig_result.param_defaults
        params_with_defaults == ParamsWithDefaults(accepted_params, param_defaults)
        Evaluates(i) == call_args[i]
        args_list == KeptIndexes(call_args, Evaluates)
        kwargs_dict == {k \in DOMAIN keywords : keywords[k] = "ok"}
        missing_evaluation ==
            {accepted_params[i] :
                i \in {i \in 1..Len(call_args) :
                          /\ ~call_args[i]
                          /\ i <= Len(accepted_params)
                          /\ accepted_params[i] \notin params_with_defaults}}
            \cup {k \in DOMAIN keywords :
                     /\ keywords[k] = "fail"
                     /\ \E i \in 1..Len(accepted_params) : accepted_params[i] = k
                     /\ k \notin params_with_defaults}
        filtered_kwargs == FilterKwargs(accepted_params, kwargs_dict)
        filtered_args == LimitPositional(args_list,
                                         MaxPositional(accepted_params, filtered_kwargs))
        missing_required ==
            missing_evaluation
            \cup MissingAfterFiltering(accepted_params, params_with_defaults,
                                       filtered_args, filtered_kwargs)
    IN  IF accepted_params = << >> THEN ArgsError
        ELSE IF missing_required # {} THEN ArgsError
        ELSE [error |-> FALSE, args |-> filtered_args, kwargs |-> filtered_kwargs]

\* The function the arguments are for: a top-level def f of the module.
CalleeSignature(callee) ==
    GetFunctionSignature(<<FunctionDef("f", callee, << >>)>>, <<"f">>)

\* Arguments given to the entry by args_json all have a value.
InitArgs ==
    /\ NotTracing
    /\ stage = "start"
    /\ result = << >>
    /\ \E op \in {"extract", "entry"}, callee \in ArgumentsSet,
          call_args \in UNION {[1..n -> BOOLEAN] : n \in 0..MaxArgs},
          keywords \in [KeywordNames -> {"ok", "fail", "absent"}] :
         /\ op = "entry" =>
               /\ \A i \in 1..Len(call_args) : call_args[i]
               /\ \A k \in KeywordNames : keywords[k] # "fail"
         /\ invocation = [op |-> op, callee |-> callee, call_args |-> call_args,
                          keywords |-> keywords]

\* --extract-call-args with --locals/--globals (lines 1080-1101)
ExtractArgs ==
    /\ stage = "start"
    /\ invocation.op = "extract"
    /\ result' = <<ExtractCallArguments(CalleeSignature(invocation.callee),
                                        invocation.call_args, invocation.keywords)>>
    /\ stage' = "done"
    /\ UNCHANGED <<tracerVars, event_callback, invocation>>

\* main, lines 1166-1207, before the entry is run with the arguments
FilterEntryArgs ==
    /\ stage = "start"
    /\ invocation.op = "entry"
    /\ result' = <<FilterEntryArguments(
                      CalleeSignature(invocation.callee),
                      [i \in 1..Len(invocation.call_args) |-> i],
                      {k \in KeywordNames : invocation.keywords[k] = "ok"})>>
    /\ stage' = "done"
    /\ UNCHANGED <<tracerVars, event_callback, invocation>>

NextArgs == ExtractArgs \/ FilterEntryArgs

SpecArgs == InitArgs /\ [][NextArgs]_vars

ArgsDone == stage = "done"
ArgsResult == result[1]
ArgsParams == CalleeSignature(invocation.callee).params
ArgsRequired == CalleeSignature(invocation.callee).param_required

\* what is left after evaluation and filtering: the keywords that evaluate
\* and name a parameter, and the positionals that evaluate, cut to
\* len(params) minus the number of those keywords
KeptKeywords ==
    {k \in KeywordNames :
        invocation.keywords[k] = "ok" /\ \E i \in 1..Len(ArgsParams) : ArgsParams[i] = k}

KeptPositionals ==
    LET n == Cardinality({i \in 1..Len(invocation.call_args) : invocation.call_args[i]})
        room == Len(ArgsParams) - Cardinality(KeptKeywords)
    IN  IF n > room THEN room ELSE n

\* C12: a successful extract-args result binds every parameter the
\* signature marks required, by a keyword of its name or by a positional
\* argument at its position; when a required parameter is left unbound
\* after evaluation and filtering, the result is an error.
C12_RequiredParametersBound ==
    (ArgsDone /\ invocation.op = "extract") =>
        /\ ~ArgsResult.error =>
              \A i \in 1..Len(ArgsParams) :
                 ArgsRequired[i] =>
                    \/ ArgsParams[i] \in ArgsResult.kwargs
                    \/ i <= Len(ArgsResult.args)
        /\ (\E i \in 1..Len(ArgsParams) :
               /\ ArgsRequired[i]
               /\ ArgsParams[i] \notin KeptKeywords
               /\ i > KeptPositionals) => ArgsResult.error

\* a result that binds one required parameter by position and another by
\* keyword, for a call that also names something that is no parameter
C12_Witness ==
    /\ ArgsDone
    /\ invocation.op = "extract"
    /\ ~ArgsResult.error
    /\ ArgsParams = <<"x", "y">>
    /\ ArgsRequired = <<TRUE, TRUE>>
    /\ ArgsResult.args = <<1>>
    /\ ArgsResult.kwargs = {"y"}
    /\ invocation.keywords["w"] = "ok"

\* C13: after filtering no parameter is bound twice: no parameter gets a
\* positional argument by its position and a keyword argument by its name,
\* for the arguments main passes to the entry and for the arguments
\* extract-args returns.
C13_NoParameterBoundTwice ==
    (ArgsDone /\ ~ArgsResult.error) =>
        \A i \in 1..Len(ArgsResult.args) :
            i <= Len(ArgsParams) => ArgsParams[i] \notin ArgsResult.kwargs


\* ------------------------------------------------------------------------
\* --get-signature (tracer.py 1062-1066) for def f inside up to MaxNesting
\* classes and functions
\* ------------------------------------------------------------------------
InitSig ==
    /\ NotTracing
    /\ stage = "start"
    /\ result = << >>
    /\ \E kinds \in UNION {[1..n -> {"ClassDef", "FunctionDef"}] : n \in 0..MaxNesting},
          a \in ArgumentsSet :
         invocation = [op |-> "signature", kinds |-> kinds, target |-> a,
                       fn_path |-> FnPath(kinds),
                       body |-> <<Nest(kinds, 1, FunctionDef("f", a, << >>))>>]

GetSignature ==
    /\ stage = "start"
    /\ invocation.op = "signature"
    /\ result' = <<GetFunctionSignature(invocation.body, invocation.fn_path)>>
    /\ stage' = "done"
    /\ UNCHANGED <<tracerVars, event_callback, invocation>>

NextSig == GetSignature

SpecSig == InitSig /\ [][NextSig]_vars

SigDone == stage = "done" /\ invocation.op = "signature" /\ ~result[1].error

NotSelfOrCls(name) == name \notin {"self", "cls"}

\* C17: the signature lists every named parameter of the definition in
\* definition order, keyword-only parameters as well as positional ones,
\* and required[i] is true exactly when parameter i has no default.  The
\* names self and cls, which another rule may omit, are left out of the
\* comparison.
C17_SignatureListsEveryParameter ==
    SigDone =>
        LET a == invocation.target
            positional == a.posonlyargs \o a.args
            named == positional \o a.kwonlyargs
            HasDefault(i) ==
                IF i <= Len(positional)
                THEN i > Len(positional) - Len(a.defaults)
                ELSE a.kw_defaults[i - Len(positional)] # NoDefault
            Other(i) == NotSelfOrCls(named[i])
            expected == KeptIndexes(named, Other)
            sig == result[1]
            Listed(j) == NotSelfOrCls(sig.params[j])
            listed == KeptIndexes(sig.params, Listed)
        IN  /\ Len(listed) = Len(expected)
            /\ \A k \in 1..Len(listed) :
                  /\ sig.params[listed[k]] = named[expected[k]]
                  /\ sig.param_required[listed[k]] = ~HasDefault(expected[k])

\* C18: for a method of a class, at any depth of the qualified path, the
\* signature leaves out the leading self or cls and nothing else; for a
\* function that is not a method nothing is left out, whatever its name.
\* The comparison is with the ordinary positional parameters.
C18_SelfOmittedForMethodsOnly ==
    SigDone =>
        LET a == invocation.target
            kinds == invocation.kinds
            method == kinds # << >> /\ kinds[Len(kinds)] = "ClassDef"
            leading == /\ a.posonlyargs = << >>
                       /\ a.args # << >>
                       /\ ~NotSelfOrCls(a.args[1])
        IN  result[1].params = IF method /\ leading THEN Tail(a.args) ELSE a.args


\* ------------------------------------------------------------------------
\* Text: a str is a sequence of characters, a character a str of length 1;
\* CharAt is "" outside the str
\* ------------------------------------------------------------------------
CharAt(s, i) == IF i >= 1 /\ i <= Len(s) THEN SubSeq(s, i, i) ELSE ""

Lower == {"a", "b", "c", "d", "e", "f", "g", "h", "i", "j", "k", "l", "m",
          "n", "o", "p", "q", "r", "s", "t", "u", "v", "w", "x", "y", "z"}
Upper == {"A", "B", "C", "D", "E", "F", "G", "H", "I", "J", "K", "L", "M",
          "N", "O", "P", "Q", "R", "S", "T", "U", "V", "W", "X", "Y", "Z"}
Digits == {"0", "1", "2", "3", "4", "5", "6", "7", "8", "9"}
WordChars == Lower \cup Upper \cup Digits \cup {"_"}    \* \w, [a-zA-Z0-9_]

\* the first index from i on where s has one of chars, 0 when there is none
RECURSIVE FindChar(_, _, _)
FindChar(s, chars, i) ==
    IF i > Len(s) THEN 0
    ELSE IF CharAt(s, i) \in chars THEN i
    ELSE FindChar(s, chars, i + 1)

\* the last index of the longest run of chars that starts at i (i - 1 when
\* s has none of them at i): what a greedy chars* consumes
RECURSIVE RunEnd(_, _, _)
RunEnd(s, chars, i) ==
    IF i <= Len(s) /\ CharAt(s, i) \in chars THEN RunEnd(s, chars, i + 1)
    ELSE i - 1

\* ------------------------------------------------------------------------
\* Call graph and roots (linearizer.py 434-461) from the qualified bodies
\* that extract_functions_from_file produces
\* ------------------------------------------------------------------------
MaxStatements == 3     \* statements in all bodies together

FunctionNames == <<"a", "b", "c", "d">>

\* make_full_id for the one file of the functions
MakeFullId(fn_name) == "/file.py::" \o fn_name

\* A body line after qualify_calls_in_line: a call of a function of the
\* file, a division, or a block header.
StatementLine(st) ==
    IF st.kind = "call" THEN "    " \o MakeFullId(FunctionNames[st.callee]) \o "()"
    ELSE IF st.kind = "div" THEN "    y = x / 2"
    ELSE "    if x:"

\* The def line and the lines of the function, joined by newlines.
RECURSIVE QualifiedBody(_, _, _)
QualifiedBody(owner, statements, i) ==
    IF i = 0 THEN "def " \o MakeFullId(FunctionNames[owner]) \o "():"
    ELSE QualifiedBody(owner, statements, i - 1)
         \o (IF statements[i].owner = owner
             THEN "\n" \o StatementLine(statements[i]) ELSE "")

\* re.findall(r"(/[^:]+\.py::[a-zA-Z0-9_]+)\(", body) from pos on.  A match
\* that starts at a slash needs ".py::" at the first colon after it, with
\* something in between, then a name and "("; it captures from the slash
\* to the name, and the search goes on behind the "(".
RECURSIVE FindAllCalls(_, _)
FindAllCalls(body, pos) ==
    LET slash == FindChar(body, {"/"}, pos)
        colon == FindChar(body, {":"}, slash + 1)
        name_end == RunEnd(body, WordChars, colon + 2)
        matches == /\ colon # 0
                   /\ colon - 4 >= slash + 1
                   /\ colon + 1 <= Len(body)
                   /\ SubSeq(body, colon - 3, colon + 1) = ".py::"
                   /\ name_end >= colon + 2
                   /\ name_end < Len(body)
                   /\ CharAt(body, name_end + 1) = "("
    IN  IF slash = 0 THEN << >>
        ELSE IF matches
             THEN <<SubSeq(body, slash, name_end)>> \o FindAllCalls(body, name_end + 2)
             ELSE FindAllCalls(body, slash + 1)

\* Every capture is kept, the one of the def line too.
ExtractCallsKeepingSelf(body, current_fn) == FindAllCalls(body, 1)

\* extract_calls_from_body
ExtractCallsFromBody(body, current_fn) ==
    LET NotSelf(c) == c # current_fn
    IN  SelectSeq(FindAllCalls(body, 1), NotSelf)

\* build_call_graph
BuildCallGraph(functions) ==
    LET all_funcs == DOMAIN functions
        Known(c) == c \in all_funcs
    IN  [fn \in all_funcs |->
            SelectSeq(ExtractCallsFromBody(functions[fn], fn), Known)]

\* find_parents, as the set the list is made of
FindParents(graph) ==
    LET called_funcs == UNION {{graph[f][i] : i \in 1..Len(graph[f])} : f \in DOMAIN graph}
    IN  DOMAIN graph \ called_funcs

\* The changed functions are the first n of FunctionNames; the statements
\* are listed body by body.
InitGraph ==
    /\ NotTracing
    /\ stage = "start"
    /\ result = << >>
    /\ \E n \in 1..Len(FunctionNames) :
       \E statements \in
             UNION {[1..k -> {st \in [owner : 1..n, kind : {"call", "div", "block"},
                                      callee : 1..Len(FunctionNames)] :
                                st.kind # "call" => st.callee = 1}] :
                      k \in 0..MaxStatements} :
         /\ \A i \in 2..Len(statements) :
               statements[i - 1].owner <= statements[i].owner
         /\ invocation =
               [op |-> "graph", changed |-> n, statements |-> statements,
                functions |->
                   [id \in {MakeFullId(FunctionNames[f]) : f \in 1..n} |->
                       QualifiedBody(CHOOSE f \in 1..n : MakeFullId(FunctionNames[f]) = id,
                                     statements, Len(statements))]]

\* main, lines 507-508
CallGraphStep ==
    /\ stage = "start"
    /\ invocation.op = "graph"
    /\ result' = [call_graph |-> BuildCallGraph(invocation.functions)]
    /\ stage' = "graph"
    /\ UNCHANGED <<tracerVars, event_callback, invocation>>

\* main, lines 509-511
ParentsStep ==
    /\ stage = "graph"
    /\ invocation.op = "graph"
    /\ result' = [call_graph |-> result.call_graph,
                  parents |-> FindParents(result.call_graph)]
    /\ stage' = "done"
    /\ UNCHANGED <<tracerVars, event_callback, invocation>>

NextGraph == CallGraphStep \/ ParentsStep

SpecGraph == InitGraph /\ [][NextGraph]_vars

GraphDone == stage = "done" /\ invocation.op = "graph"

\* g is among the calls recorded for f
HasEdge(f, g) == \E i \in 1..Len(result.call_graph[f]) : result.call_graph[f][i] = g

\* the body of the f-th function holds a call of the g-th
BodyCalls(f, g) ==
    \E i \in 1..Len(invocation.statements) :
        /\ invocation.statements[i].owner = f
        /\ invocation.statements[i].kind = "call"
        /\ invocation.statements[i].callee = g

\* C14: every function of the call graph is in the root list or has an
\* edge from another function of the graph, whatever the shape of the
\* graph, self-recursion and mutual recursion included.
C14_RootOrCalledByAnother ==
    GraphDone =>
        \A f \in DOMAIN result.call_graph :
            \/ f \in result.parents
            \/ \E g \in DOMAIN result.call_graph : g # f /\ HasEdge(g, f)

\* a and b call each other and a calls itself: there is no root
C14_Witness ==
    /\ GraphDone
    /\ invocation.changed = 2
    /\ BodyCalls(1, 1) /\ BodyCalls(1, 2) /\ BodyCalls(2, 1)
    /\ result.parents = {}
    /\ HasEdge(MakeFullId("a"), MakeFullId("b"))
    /\ HasEdge(MakeFullId("b"), MakeFullId("a"))

\* C15: the graph has an edge f -> g exactly when the body of f holds a
\* qualified call of g, g is a changed function and g is not f; the roots
\* are exactly the functions without an incoming edge.
C15_EdgesAreTheQualifiedCalls ==
    GraphDone =>
        LET n == invocation.changed
            Id(f) == MakeFullId(FunctionNames[f])
        IN  /\ \A f \in 1..n : \A g \in 1..Len(FunctionNames) :
                  HasEdge(Id(f), Id(g)) <=> (BodyCalls(f, g) /\ g <= n /\ g # f)
            /\ result.parents =
                  {Id(g) : g \in {g \in 1..n : ~\E f \in 1..n : HasEdge(Id(f), Id(g))}}


\* ------------------------------------------------------------------------
\* Hunk classification (linearizer.py 53-132), the filter of parse_diff
\* (155-162) and find_changed_functions (198-212)
\* ------------------------------------------------------------------------
Whitespace == {" ", "\t"}         \* \s within one line
Alpha == Lower \cup Upper \cup {"_"}

\* the last index of the longest run of characters outside chars from i on
RECURSIVE RunEndNot(_, _, _)
RunEndNot(s, chars, i) ==
    IF i <= Len(s) /\ CharAt(s, i) \notin chars THEN RunEndNot(s, chars, i + 1)
    ELSE i - 1

\* the index of the last character that is no whitespace, 0 when none
RECURSIVE LastNonSpace(_, _)
LastNonSpace(s, i) ==
    IF i >= 1 /\ CharAt(s, i) \in Whitespace THEN LastNonSpace(s, i - 1) ELSE i

StartsWith(s, prefix) ==
    Len(s) >= Len(prefix) /\ SubSeq(s, 1, Len(prefix)) = prefix

\* str.strip()
StripSpaces(s) ==
    SubSeq(s, RunEnd(s, Whitespace, 1) + 1, LastNonSpace(s, Len(s)))

\* PY_FUNC_DEF.match(line), ^\s*def\s+([A-Za-z_]\w*)\s*\( : whether it
\* matches, group 1 and the index of the parenthesis
PyFuncDef(line) ==
    LET d == RunEnd(line, Whitespace, 1) + 1
        w == RunEnd(line, Whitespace, d + 3)
        name_end == RunEnd(line, WordChars, w + 2)
        paren == RunEnd(line, Whitespace, name_end + 1) + 1
        ok == /\ d + 2 <= Len(line)
              /\ SubSeq(line, d, d + 2) = "def"
              /\ w >= d + 3
              /\ CharAt(line, w + 1) \in Alpha
              /\ CharAt(line, paren) = "("
    IN  [matched |-> ok,
         name |-> IF ok THEN SubSeq(line, w + 1, name_end) ELSE "",
         paren |-> paren]

\* CALL_RE.search(line), [A-Za-z_]\w*\s*\( anywhere in the line
CallReSearch(line) ==
    \E i \in 1..Len(line) :
        /\ CharAt(line, i) \in Alpha
        /\ CharAt(line, RunEnd(line, Whitespace,
                               RunEnd(line, WordChars, i + 1) + 1) + 1) = "("

\* DEF_LINE_RE.match(line): group 1 is greedy, so it ends before the last
\* ")" from q down that is followed by \s*(->\s*.*)?:\s*$ ; 0 when no ")"
\* after the opening parenthesis is
RECURSIVE DefLineClose(_, _, _)
DefLineClose(line, paren, q) ==
    LET r == RunEnd(line, Whitespace, q + 1) + 1
        t == LastNonSpace(line, Len(line))
        rest == /\ CharAt(line, t) = ":"
                /\ \/ t = r
                   \/ t >= r + 2 /\ SubSeq(line, r, r + 1) = "->"
    IN  IF q <= paren THEN 0
        ELSE IF CharAt(line, q) = ")" /\ rest THEN q
        ELSE DefLineClose(line, paren, q - 1)

\* re.sub(r"\s*:\s*[^,=\)\]]+", "", s) from index i on
RECURSIVE RemoveAnnotations(_, _)
RemoveAnnotations(s, i) ==
    LET colon == RunEnd(s, Whitespace, i) + 1
        ann_end == RunEndNot(s, {",", "=", ")", "]"}, colon + 1)
    IN  IF i > Len(s) THEN ""
        ELSE IF CharAt(s, colon) = ":" /\ ann_end >= colon + 1
             THEN RemoveAnnotations(s, ann_end + 1)
             ELSE CharAt(s, i) \o RemoveAnnotations(s, i + 1)

\* re.sub(r"\s+", " ", s) from index i on
RECURSIVE CollapseSpaces(_, _)
CollapseSpaces(s, i) ==
    IF i > Len(s) THEN ""
    ELSE IF CharAt(s, i) \in Whitespace
         THEN " " \o CollapseSpaces(s, RunEnd(s, Whitespace, i) + 1)
         ELSE CharAt(s, i) \o CollapseSpaces(s, i + 1)

\* _strip_type_annotations_from_params
StripTypeAnnotationsFromParams(params_text) ==
    StripSpaces(CollapseSpaces(RemoveAnnotations(params_text, 1), 1))

\* _normalize_def_line
NormalizeDefLine(line) ==
    LET def == PyFuncDef(line)
        close == DefLineClose(line, def.paren, Len(line))
    IN  IF ~def.matched \/ close = 0 THEN None
        ELSE "def " \o def.name \o "("
             \o StripTypeAnnotationsFromParams(SubSeq(line, def.paren + 1, close - 1))
             \o ")"

\* difflib.SequenceMatcher without junk: the length of the common run of
\* a from i and b from j
RECURSIVE CommonRun(_, _, _, _, _, _)
CommonRun(a, b, i, j, ahi, bhi) ==
    IF i <= ahi /\ j <= bhi /\ CharAt(a, i) = CharAt(b, j)
    THEN 1 + CommonRun(a, b, i + 1, j + 1, ahi, bhi)
    ELSE 0

\* find_longest_match over a[alo..ahi] and b[blo..bhi]: the longest block,
\* the one earliest in a and then earliest in b among the longest
FindLongestMatch(a, b, alo, ahi, blo, bhi) ==
    LET Run(i, j) == CommonRun(a, b, i, j, ahi, bhi)
        starts == {p \in (alo..ahi) \X (blo..bhi) : CharAt(a, p[1]) = CharAt(b, p[2])}
        runs == {<<p[1], p[2], Run(p[1], p[2])>> : p \in starts}
        longest == {r \in runs : \A o \in runs : o[3] <= r[3]}
        first == CHOOSE r \in longest :
                    \A o \in longest : r[1] < o[1] \/ (r[1] = o[1] /\ r[2] <= o[2])
    IN  IF starts = {} THEN [i |-> alo, j |-> blo, size |-> 0]
        ELSE [i |-> first[1], j |-> first[2], size |-> first[3]]

\* the sum of the sizes of get_matching_blocks
RECURSIVE MatchedSize(_, _, _, _, _, _)
MatchedSize(a, b, alo, ahi, blo, bhi) ==
    LET m == FindLongestMatch(a, b, alo, ahi, blo, bhi)
    IN  IF alo > ahi \/ blo > bhi \/ m.size = 0 THEN 0
        ELSE m.size + MatchedSize(a, b, alo, m.i - 1, blo, m.j - 1)
                    + MatchedSize(a, b, m.i + m.size, ahi, m.j + m.size, bhi)

\* ratio() >= 0.85, ratio being 2 * matched / (len(a) + len(b))
RatioAtLeastThreshold(a, b) ==
    40 * MatchedSize(a, b, 1, Len(a), 1, Len(b)) >= 17 * (Len(a) + Len(b))

\* _def_line_change_is_trivial
DefLineChangeIsTrivial(removed, added) ==
    LET norm_removed == NormalizeDefLine(removed)
        norm_added == NormalizeDefLine(added)
    IN  IF norm_removed = None \/ norm_added = None THEN FALSE
        ELSE IF norm_removed = norm_added THEN TRUE
        ELSE RatioAtLeastThreshold(norm_removed, norm_added)

\* is_important_hunk
IsImportantHunk(hunk_lines) ==
    LET IsAdded(l) == StartsWith(l, "+") /\ ~StartsWith(l, "+++")
        IsRemoved(l) == StartsWith(l, "-") /\ ~StartsWith(l, "---")
        added == SelectSeq(hunk_lines, IsAdded)
        removed == SelectSeq(hunk_lines, IsRemoved)
        Text(l) == SubSeq(l, 2, Len(l))
        def_pairs ==
            {p \in (1..Len(removed)) \X (1..Len(added)) :
                /\ PyFuncDef(Text(removed[p[1]])).matched
                /\ PyFuncDef(Text(added[p[2]])).matched
                /\ PyFuncDef(Text(removed[p[1]])).name = PyFuncDef(Text(added[p[2]])).name}
        trivial_pairs ==
            {p \in def_pairs :
                DefLineChangeIsTrivial(Text(removed[p[1]]), Text(added[p[2]]))}
        NonDef(l) ==
            LET a_line == StripSpaces(Text(l))
            IN  /\ a_line # ""
                /\ ~PyFuncDef(a_line).matched
                /\ ~StartsWith(a_line, "from ")
                /\ ~StartsWith(a_line, "import ")
                /\ ~StartsWith(a_line, "#")
        non_def_added == SelectSeq(added, NonDef)
        line == Text((added \o removed)[1])
    IN  IF added = << >> /\ removed = << >> THEN FALSE
        ELSE IF Len(added) + Len(removed) = 1
             THEN (IF PyFuncDef(line).matched THEN FALSE ELSE CallReSearch(line))
        ELSE ~(def_pairs # {} /\ def_pairs = trivial_pairs /\ non_def_added = << >>)

\* parse_diff without the assignment of line 159: a file with an important
\* hunk keeps all its hunks
ParseDiffKeepsWholeFile(files) ==
    LET Important(h) == IsImportantHunk(h.lines)
        Kept(i) == SelectSeq(files[i].hunks, Important) # << >>
        kept == KeptIndexes(files, Kept)
    IN  [k \in 1..Len(kept) |-> files[kept[k]]]

\* parse_diff, lines 155-162, on the files and hunks read from the diff
ParseDiff(files) ==
    LET Important(h) == IsImportantHunk(h.lines)
        Filtered(i) == [file |-> files[i].file,
                        hunks |-> SelectSeq(files[i].hunks, Important)]
        Kept(i) == Filtered(i).hunks # << >>
        kept == KeptIndexes(files, Kept)
    IN  [k \in 1..Len(kept) |-> Filtered(kept[k])]

\* find_changed_functions: the files with a def line on an added or a
\* context line, each with the names defined there
FindChangedFunctions(parsed_files) ==
    LET Funcs(i) ==
            LET f == parsed_files[i]
            IN  {PyFuncDef(SubSeq(f.hunks[h].lines[l], 2, Len(f.hunks[h].lines[l]))).name :
                    <<h, l>> \in
                      {p \in UNION {{<<h, l>> : l \in 1..Len(f.hunks[h].lines)} :
                                       h \in 1..Len(f.hunks)} :
                          LET text == f.hunks[p[1]].lines[p[2]]
                          IN  /\ StartsWith(text, "+") \/ StartsWith(text, " ")
                              /\ PyFuncDef(SubSeq(text, 2, Len(text))).matched}}
        with_funcs == {i \in 1..Len(parsed_files) : Funcs(i) # {}}
    IN  [file \in {parsed_files[i].file : i \in with_funcs} |->
            UNION {Funcs(i) : i \in {i \in with_funcs : parsed_files[i].file = file}}]

MaxDefParams == 2      \* parameters of the def line of a hunk

\* A def line as it is usually written: "a: int = 3" with an annotation,
\* "a=3" without.
RECURSIVE ParamsText(_, _, _)
ParamsText(params, annotated, i) ==
    LET ann == IF annotated THEN params[i].ann ELSE ""
        text == <<"a", "b", "c">>[i]
                \o (IF ann # "" THEN ": " \o ann ELSE "")
                \o (IF params[i].default = "" THEN ""
                    ELSE (IF ann # "" THEN " = " ELSE "=") \o params[i].default)
    IN  IF i = 0 THEN ""
        ELSE IF i = 1 THEN text
        ELSE ParamsText(params, annotated, i - 1) \o ", " \o text

DefLine(name, params, annotated, returns) ==
    "def " \o name \o "(" \o ParamsText(params, annotated, Len(params)) \o ")"
    \o (IF annotated /\ returns # "" THEN " -> " \o returns ELSE "") \o ":"

\* One file with one hunk: a def line removed, the def line of the same
\* function added, the two differing in annotations only, and one line of
\* context.  The annotations are added or removed.
InitHunk ==
    /\ NotTracing
    /\ stage = "start"
    /\ result = << >>
    /\ \E name \in {"f", "process_items"},
          params \in UNION {[1..k -> [ann : {"", "int", "Dict[str, int]", "List[int]"},
                                      default : {"", "3"}]] : k \in 0..MaxDefParams},
          returns \in {"", "None", "Dict[str, int]"},
          adding \in BOOLEAN :
         LET plain == DefLine(name, params, FALSE, returns)
             annotated == DefLine(name, params, TRUE, returns)
             removed == IF adding THEN plain ELSE annotated
             added == IF adding THEN annotated ELSE plain
         IN  /\ \A i \in 2..Len(params) :
                   params[i - 1].default # "" => params[i].default # ""
             /\ plain # annotated
             /\ invocation =
                   [op |-> "diff", removed |-> removed, added |-> added,
                    files |-> <<[file |-> "x.py",
                                 hunks |-> <<[header |-> "@@ -1,2 +1,2 @@",
                                              lines |-> <<"-" \o removed, "+" \o added,
                                                          "     return a">>]>>]>>]

\* main, line 488
ParseDiffStep ==
    /\ stage = "start"
    /\ invocation.op = "diff"
    /\ result' = [parsed |-> ParseDiff(invocation.files)]
    /\ stage' = "parsed"
    /\ UNCHANGED <<tracerVars, event_callback, invocation>>

\* main, line 490
ChangedFunctionsStep ==
    /\ stage = "parsed"
    /\ invocation.op = "diff"
    /\ result' = [parsed |-> result.parsed,
                  changed |-> FindChangedFunctions(result.parsed)]
    /\ stage' = "done"
    /\ UNCHANGED <<tracerVars, event_callback, invocation>>

NextHunk == ParseDiffStep \/ ChangedFunctionsStep

SpecHunk == InitHunk /\ [][NextHunk]_vars

\* C16: a hunk whose only changed lines are the removed and the added def
\* line of one function, differing in parameter and return annotations
\* only, is cosmetic: the filter of the diff removes it and no changed
\* function comes from it.
C16_AnnotationOnlyHunkIsCosmetic ==
    (stage = "done" /\ invocation.op = "diff") =>
        /\ result.parsed = << >>
        /\ DOMAIN result.changed = {}


\* ------------------------------------------------------------------------
\* Targets from text: parse_location_spec (tracer.py 628-646), the initial
\* --stop_location (1211-1220) and parse_flow_target_from_input (1306-1336)
\* ------------------------------------------------------------------------
\* the last index up to i where s has one of chars, 0 when there is none
RECURSIVE FindLast(_, _, _)
FindLast(s, chars, i) ==
    IF i < 1 THEN 0
    ELSE IF CharAt(s, i) \in chars THEN i
    ELSE FindLast(s, chars, i - 1)

\* the number the first i digits of s write
RECURSIVE DecimalValue(_, _)
DecimalValue(s, i) ==
    IF i = 0 THEN 0
    ELSE 10 * DecimalValue(s, i - 1) + (FindChar("0123456789", {CharAt(s, i)}, 1) - 1)

\* int(text) for a str: spaces around, a sign and decimal digits (digit
\* groups with underscores are not written here); error for anything else
IntOf(text) ==
    LET t == StripSpaces(text)
        signed == CharAt(t, 1) \in {"+", "-"}
        digits == IF signed THEN SubSeq(t, 2, Len(t)) ELSE t
        ok == digits # "" /\ RunEnd(digits, Digits, 1) = Len(digits)
        n == DecimalValue(digits, Len(digits))
    IN  [error |-> ~ok,
         value |-> IF ~ok THEN NoLine ELSE IF CharAt(t, 1) = "-" THEN 0 - n ELSE n]

\* str.replace(old, new) from index i on
RECURSIVE Replace(_, _, _, _)
Replace(s, old, new, i) ==
    IF i > Len(s) THEN ""
    ELSE IF i + Len(old) - 1 <= Len(s) /\ SubSeq(s, i, i + Len(old) - 1) = old
         THEN new \o Replace(s, old, new, i + Len(old))
         ELSE CharAt(s, i) \o Replace(s, old, new, i + 1)

TargetError == [error |-> TRUE, function |-> None, line |-> NoLine]

\* parse_location_spec; a ValueError is the error result
ParseLocationSpec(value, default_function) ==
    LET colon == FindLast(value, {":"}, Len(value))
        before == SubSeq(value, 1, colon - 1)
        func == IF colon = 0 \/ before = "" THEN default_function ELSE before
        line == IntOf(SubSeq(value, colon + 1, Len(value)))
    IN  IF value \in {None, ""} THEN TargetError
        ELSE IF func = None \/ line.error THEN TargetError
        ELSE [error |-> FALSE, function |-> func, line |-> line.value]

\* lines 1161-1173
EffectiveFnName(fn_name) ==
    IF IsTopLevelEntryName(fn_name) THEN "<module>" ELSE fn_name

\* lines 1211-1220: the target the tracer starts with
InitialTarget(fn_name, stop_location, stop_line_arg) ==
    LET effective_fn_name == EffectiveFnName(fn_name)
        location == IF IsTopLevelEntryName(fn_name)
                    THEN Replace(stop_location, "<top-level>", effective_fn_name, 1)
                    ELSE stop_location
    IN  IF stop_location \notin {None, ""}
        THEN ParseLocationSpec(location, effective_fn_name)
        ELSE IF stop_line_arg = NoLine THEN TargetError
        ELSE [error |-> FALSE, function |-> effective_fn_name, line |-> stop_line_arg]

\* parse_flow_target_from_input for a JSON object; a key that is absent
\* is None (NoLine for "line")
ParseFlowTargetFromInput(fn_name, command_data) ==
    LET effective_fn_name == EffectiveFnName(fn_name)
        function_override == IF command_data.function \in {None, ""}
                             THEN effective_fn_name ELSE command_data.function
    IN  IF command_data.location \notin {None, ""}
        THEN ParseLocationSpec(command_data.location, function_override)
        ELSE IF command_data.line = NoLine THEN TargetError
        ELSE [error |-> FALSE, function |-> function_override,
              line |-> command_data.line]

\* A location is written as function ":" line, or as a line alone.
FunctionTokens == {"", "h", "k", "<top-level>", "m.py::k"}
LineTokens == {"2", "12", "x", ""}

InitParse ==
    /\ NotTracing
    /\ stage = "start"
    /\ result = << >>
    /\ \E op \in {"initial", "request"}, fn_name \in {"h", "<top-level>"},
          located \in BOOLEAN, colon \in BOOLEAN,
          func \in FunctionTokens, line_text \in LineTokens,
          function \in {None, "k"}, line \in {NoLine, 7} :
         /\ ~colon => func = ""
         /\ ~located => ~colon /\ line_text = ""
         /\ op = "initial" => function = None
         /\ invocation =
               [op |-> op, fn_name |-> fn_name, located |-> located,
                func |-> func, line_text |-> line_text,
                location |-> IF ~located THEN None
                             ELSE IF colon THEN func \o ":" \o line_text
                             ELSE line_text,
                function |-> function, line |-> line]

\* main before the loop
InitialTargetStep ==
    /\ stage = "start"
    /\ invocation.op = "initial"
    /\ result' = InitialTarget(invocation.fn_name, invocation.location, invocation.line)
    /\ stage' = "done"
    /\ UNCHANGED <<tracerVars, event_callback, invocation>>

\* a request of the loop
RequestTargetStep ==
    /\ stage = "start"
    /\ invocation.op = "request"
    /\ result' = ParseFlowTargetFromInput(
                    invocation.fn_name,
                    [location |-> invocation.location,
                     function |-> invocation.function, line |-> invocation.line])
    /\ stage' = "done"
    /\ UNCHANGED <<tracerVars, event_callback, invocation>>

NextParse == InitialTargetStep \/ RequestTargetStep

SpecParse == InitParse /\ [][NextParse]_vars

\* C19: for a request with a location, the function and the line of the
\* target are those of the location, whatever the function and line keys
\* say (the function key only fills in for a location that names no
\* function), and "<top-level>" in the location of a request to a
\* module-body entry stands for the entry's actual function name:
\* "<top-level>:N" is line N of "<module>".
C19_LocationDeterminesTarget ==
    (stage = "done" /\ invocation.op = "request" /\ invocation.located
     /\ invocation.location # "" /\ ~result.error) =>
        /\ result.line = IF invocation.line_text = "2" THEN 2 ELSE 12
        /\ result.function =
              IF invocation.func = ""
              THEN (IF invocation.function = None
                    THEN EffectiveFnName(invocation.fn_name)
                    ELSE invocation.function)
              ELSE IF invocation.func = "<top-level>"
                      /\ IsTopLevelEntryName(invocation.fn_name)
              THEN EffectiveFnName(invocation.fn_name)
              ELSE invocation.func


\* ------------------------------------------------------------------------
\* Repository walks: extract_new_python_files (linearizer.py 165-195),
\* build_repo_index (369-389), find_call_sites (find_call_sites.py 185-229)
\* ------------------------------------------------------------------------
MaxDepth == 2      \* directories above a file

\* find_call_sites.py, line 215
SkippedDirs == {".git", "__pycache__", ".venv", "venv", "env", "node_modules"}

RepoRoot == "/repo"

\* os.path.join of the directories and the file name
RECURSIVE JoinPath(_, _, _)
JoinPath(dirs, name, i) ==
    IF i > Len(dirs) THEN name
    ELSE dirs[i] \o "/" \o JoinPath(dirs, name, i + 1)

\* sub in s
Contains(s, sub) ==
    \E i \in 1..(Len(s) - Len(sub) + 1) : SubSeq(s, i, i + Len(sub) - 1) = sub

EndsWith(s, suffix) ==
    Len(s) >= Len(suffix) /\ SubSeq(s, Len(s) - Len(suffix) + 1, Len(s)) = suffix

\* os.walk from the first `from` directories of the file's path on reaches
\* the file when none of the directories below is taken out of dirs
WalkReaches(file, from, pruned) ==
    \A i \in (from + 1)..Len(file.dirs) : file.dirs[i] \notin pruned

\* extract_new_python_files: status_paths are the paths of the "??" and
\* "A" lines of git status, a directory as the number of its components
\* and a file as the file
ExtractNewPythonFiles(files, status_dirs, status_files) ==
    {JoinPath(f.dirs, f.name, 1) :
        f \in {f \in files :
                 /\ EndsWith(f.name, ".py")
                 /\ \/ f \in status_files
                    \/ \E d \in status_dirs :
                          /\ d.depth <= Len(f.dirs)
                          /\ SubSeq(f.dirs, 1, d.depth) = d.dirs
                          /\ WalkReaches(f, d.depth, {})}}

\* build_repo_index: the files it parses and enters in the index
BuildRepoIndex(files) ==
    {JoinPath(f.dirs, f.name, 1) :
        f \in {f \in files :
                 LET fpath == RepoRoot \o "/" \o JoinPath(f.dirs, f.name, 1)
                 IN  /\ WalkReaches(f, 0, {".git"})
                     /\ EndsWith(f.name, ".py")
                     /\ ~Contains(fpath, "/.venv/")
                     /\ ~Contains(fpath, "/venv/")}}

\* find_call_sites: the files it gives to find_function_calls_in_file
FindCallSites(files, target_file_rel_path) ==
    {JoinPath(f.dirs, f.name, 1) :
        f \in {f \in files :
                 /\ WalkReaches(f, 0, SkippedDirs)
                 /\ EndsWith(f.name, ".py")
                 /\ JoinPath(f.dirs, f.name, 1) # target_file_rel_path}}

\* The repository holds t.py, which is committed, and one more file.  git
\* status names the file, one of the directories above it, or nothing
\* (the file is committed); it names nothing inside .git.
InitWalk ==
    /\ NotTracing
    /\ stage = "start"
    /\ result = [new_files |-> {}, index |-> {}, read |-> {}]
    /\ \E op \in {"linearizer", "find_call_sites"},
          dirs \in UNION {[1..n -> SkippedDirs \cup {"pkg"}] : n \in 0..MaxDepth},
          name \in {"m.py", "notes.txt"},
          status \in 0..(MaxDepth + 1) :
         LET file == [dirs |-> dirs, name |-> name]
         IN  /\ status <= Len(dirs) + 1
             /\ (\E i \in 1..Len(dirs) : dirs[i] = ".git") => status = 0
             /\ op = "find_call_sites" => status = 0
             /\ invocation =
                   [op |-> op, file |-> file,
                    files |-> {file, [dirs |-> << >>, name |-> "t.py"]},
                    status_files |-> IF status = Len(dirs) + 1 THEN {file} ELSE {},
                    status_dirs |->
                       IF status \in 1..Len(dirs)
                       THEN {[depth |-> status, dirs |-> SubSeq(dirs, 1, status)]}
                       ELSE {}]

\* linearizer main, lines 493-494
NewFilesStep ==
    /\ stage = "start"
    /\ invocation.op = "linearizer"
    /\ result' = [result EXCEPT !.new_files =
                     ExtractNewPythonFiles(invocation.files, invocation.status_dirs,
                                           invocation.status_files)]
    /\ stage' = "new"
    /\ UNCHANGED <<tracerVars, event_callback, invocation>>

\* linearizer main, line 499
RepoIndexStep ==
    /\ stage = "new"
    /\ invocation.op = "linearizer"
    /\ result' = [result EXCEPT !.index = BuildRepoIndex(invocation.files)]
    /\ stage' = "done"
    /\ UNCHANGED <<tracerVars, event_callback, invocation>>

\* find_call_sites.py main, line 240, for the function t of t.py
CallSitesStep ==
    /\ stage = "start"
    /\ invocation.op = "find_call_sites"
    /\ result' = [result EXCEPT !.read = FindCallSites(invocation.files, "t.py")]
    /\ stage' = "done"
    /\ UNCHANGED <<tracerVars, event_callback, invocation>>

NextWalk == NewFilesStep \/ RepoIndexStep \/ CallSitesStep

SpecWalk == InitWalk /\ [][NextWalk]_vars

\* C20: no file under a directory named .git, __pycache__, .venv, venv,
\* env or node_modules is read, indexed or reported by a walk of the
\* repository: not by the index of names, not by the collection of new
\* files, not by the scan for call sites.
C20_WalksSkipExcludedDirs ==
    LET file == invocation.file
        path == JoinPath(file.dirs, file.name, 1)
    IN  (invocation.op \in {"linearizer", "find_call_sites"}
         /\ \E i \in 1..Len(file.dirs) : file.dirs[i] \in SkippedDirs) =>
            /\ path \notin result.new_files
            /\ path \notin result.index
            /\ path \notin result.read

\* ------------------------------------------------------------------------
\* Canonical ids: linearizer.py builds them (make_full_id, main), tracer.py
\* and find_call_sites.py split them
\* ------------------------------------------------------------------------
\* str.lstrip("/")
LStripSlashes(s) == SubSeq(s, RunEnd(s, {"/"}, 1) + 1, Len(s))

\* the index of the last "::" of an id, 0 when it has none: where
\* str.rsplit("::", 1) would cut
LastSeparator(id) ==
    LET hits == {i \in 1..(Len(id) - 1) : SubSeq(id, i, i + 1) = "::"}
    IN  IF hits = {} THEN 0 ELSE CHOOSE i \in hits : \A j \in hits : j <= i

\* the index of the first "::" of an id, 0 when it has none: where
\* str.split("::", 1) cuts
FirstSeparator(id) ==
    LET hits == {i \in 1..(Len(id) - 1) : SubSeq(id, i, i + 1) = "::"}
    IN  IF hits = {} THEN 0 ELSE Min(hits)

\* make_full_id
make_full_id(rel_file, fn_name) == "/" \o LStripSlashes(rel_file) \o "::" \o fn_name

\* os.path.join of two parts: an absolute second part replaces the first
OsPathJoin(a, b) == IF StartsWith(b, "/") THEN b ELSE a \o "/" \o b

\* rel_path(repo_root, abs_path) for a normalised absolute abs_path and the
\* root /repo: the part below the root, or "../" and the path from / when
\* the path is not below the root (no path used here has /repo as a proper
\* prefix of its first directory name)
rel_path(root, abs_path) ==
    IF StartsWith(abs_path, root \o "/")
    THEN SubSeq(abs_path, Len(root) + 2, Len(abs_path))
    ELSE "../" \o LStripSlashes(abs_path)

\* linearizer main, lines 500-505: the key of a function of rel_file
MainKey(rel_file, fn_name) ==
    LET abs_file == OsPathJoin(RepoRoot, rel_file)
        full_id == make_full_id(abs_file, fn_name)
    IN  "/" \o rel_path(RepoRoot, full_id)

\* tracer main, lines 1132-1137
SplitEntryFullId(entry_full_id) ==
    LET at == FirstSeparator(entry_full_id)
        path_part == SubSeq(entry_full_id, 1, at - 1)
    IN  IF at = 0 THEN [error |-> TRUE]
        ELSE [error |-> FALSE,
              rel_path |-> path_part,
              fn_name |-> SubSeq(entry_full_id, at + 2, Len(entry_full_id)),
              abs_path |-> OsPathJoin(RepoRoot, LStripSlashes(path_part))]

\* find_call_sites, lines 190-201: one leading slash is removed
SplitFunctionId(target_function_id) ==
    LET at == FirstSeparator(target_function_id)
        path_part == SubSeq(target_function_id, 1, at - 1)
        stripped == IF StartsWith(path_part, "/")
                    THEN SubSeq(path_part, 2, Len(path_part)) ELSE path_part
    IN  IF at = 0 THEN [error |-> TRUE]
        ELSE [error |-> FALSE,
              rel_path |-> stripped,
              fn_name |-> SubSeq(target_function_id, at + 2, Len(target_function_id)),
              abs_path |-> OsPathJoin(RepoRoot, stripped)]

RelFiles == {"a.py", "b.py", "pkg/a.py", "pkg/sub/b.py", "/a.py", "//pkg/a.py"}
EntryNames == {"f", "g", "C::m", "f::inner", "<module>", "<top-level>"}

\* a repository-relative path: no leading slash
IsRepoRelative(rel_file) == ~StartsWith(rel_file, "/")

InitIds ==
    /\ NotTracing
    /\ stage = "start"
    /\ result = [id |-> ""]
    /\ \E rel_file \in RelFiles, fn_name \in EntryNames :
         invocation = [op |-> "ids", rel_file |-> rel_file, fn_name |-> fn_name]

\* save_function, lines 241-249, and find_call_sites line 158: the id of a
\* function of a file given by its path below the root
MakeFullIdStep ==
    /\ stage = "start"
    /\ result' = [id |-> make_full_id(invocation.rel_file, invocation.fn_name)]
    /\ stage' = "id"
    /\ UNCHANGED <<tracerVars, event_callback, invocation>>

\* linearizer main, lines 500-505
MainKeyStep ==
    /\ stage = "start"
    /\ result' = [id |-> MainKey(invocation.rel_file, invocation.fn_name)]
    /\ stage' = "id"
    /\ UNCHANGED <<tracerVars, event_callback, invocation>>

\* tracer main, lines 1132-1137
SplitEntryStep ==
    /\ stage = "id"
    /\ result' = [id |-> result.id, by |-> "tracer", parts |-> SplitEntryFullId(result.id)]
    /\ stage' = "split"
    /\ UNCHANGED <<tracerVars, event_callback, invocation>>

\* find_call_sites, lines 190-201
SplitFunctionStep ==
    /\ stage = "id"
    /\ result' = [id |-> result.id, by |-> "find_call_sites",
                  parts |-> SplitFunctionId(result.id)]
    /\ stage' = "split"
    /\ UNCHANGED <<tracerVars, event_callback, invocation>>

NextIds == MakeFullIdStep \/ MainKeyStep \/ SplitEntryStep \/ SplitFunctionStep

SpecIds == InitIds /\ [][NextIds]_vars

\* C21: every id that is built begins with "/", and splitting the id of a
\* repository-relative path and a name on the first "::" gives the name
\* back and the path back: the tracer gets the path behind the id's
\* leading slash and the file of that path below the root, find_call_sites
\* gets the path itself.
C21_IdRoundTrip ==
    /\ stage \in {"id", "split"} => StartsWith(result.id, "/")
    /\ (stage = "split" /\ IsRepoRelative(invocation.rel_file)) =>
          /\ ~result.parts.error
          /\ result.parts.fn_name = invocation.fn_name
          /\ result.parts.abs_path = RepoRoot \o "/" \o invocation.rel_file
          /\ result.by = "tracer" => result.parts.rel_path = "/" \o invocation.rel_file
          /\ result.by = "find_call_sites" => result.parts.rel_path = invocation.rel_file

\* the id of a method in a file of a package was split by the tracer
C21_Witness ==
    /\ stage = "split"
    /\ result.by = "tracer"
    /\ invocation.rel_file = "pkg/sub/b.py"
    /\ invocation.fn_name = "C::m"
    /\ result.id = "/pkg/sub/b.py::C::m"
    /\ result.parts.fn_name = "C::m"

\* ------------------------------------------------------------------------
\* The filter of parse_diff applied to its own output
\* ------------------------------------------------------------------------
MaxHunks == 2      \* hunks of one file of the diff
FileNames == <<"x.py", "y.py">>      \* the files of the diff

\* Hunks of a diff: the lines of a def line that gained an annotation, a
\* changed statement, an added call, an added comment, and a hunk of
\* context lines.
HunkPool ==
    {<<"-def f(a):", "+def f(a: int):", "     return a">>,
     <<"-    x = 1", "+    x = g(2)">>,
     <<"     y = 0", "+    run(y)">>,
     <<"+# note">>,
     <<"     pass">>}

InitFilter ==
    /\ NotTracing
    /\ stage = "start"
    /\ result = << >>
    /\ \E hunks \in UNION {[1..n -> UNION {[1..k -> HunkPool] : k \in 1..MaxHunks}] :
                              n \in 1..Len(FileNames)} :
         invocation =
            [op |-> "filter",
             files |-> [i \in 1..Len(hunks) |->
                          [file |-> FileNames[i],
                           hunks |-> [j \in 1..Len(hunks[i]) |->
                                        [header |-> "@@ -1,2 +1,2 @@",
                                         lines |-> hunks[i][j]]]]]]

\* parse_diff, lines 155-162: the filter on the files read from the diff,
\* then on the files it returned (before holds what the filter was given)
FilterStep ==
    /\ stage \in {"start", "parsed"}
    /\ invocation.op = "filter"
    /\ LET files == IF stage = "start" THEN invocation.files ELSE result.parsed
       IN  result' = [before |-> files, parsed |-> ParseDiff(files)]
    /\ stage' = IF stage = "start" THEN "parsed" ELSE "again"
    /\ UNCHANGED <<tracerVars, event_callback, invocation>>

NextFilter == FilterStep

SpecFilter == InitFilter /\ [][NextFilter]_vars

\* the hunks of a list of files, as file and hunk indexes
HunksOf(files) ==
    UNION {{<<i, j>> : j \in 1..Len(files[i].hunks)} : i \in 1..Len(files)}

\* C22: the filter applied to its own output returns the same files with
\* the same hunks; every hunk it kept is classified important again, and
\* the hunks kept are as many as the important hunks of the diff (the
\* others are dropped, and stay dropped).
C22_FilterIdempotent ==
    stage = "again" =>
        /\ result.parsed = result.before
        /\ \A p \in HunksOf(result.before) :
              IsImportantHunk(result.before[p[1]].hunks[p[2]].lines)
        /\ Cardinality(HunksOf(result.parsed)) =
              Cardinality({p \in HunksOf(invocation.files) :
                              IsImportantHunk(invocation.files[p[1]].hunks[p[2]].lines)})

\* a file whose hunks were partly kept and a file that was dropped
C22_Witness ==
    /\ stage = "again"
    /\ Len(invocation.files) = 2
    /\ Len(invocation.files[1].hunks) = 2
    /\ Len(result.before) = 1
    /\ Len(result.before[1].hunks) = 1
    /\ result.before[1].hunks[1] = invocation.files[1].hunks[2]
    /\ result.parsed = result.before


\* ------------------------------------------------------------------------
\* The hand-over between the main thread and the worker (ready and step)
\* ------------------------------------------------------------------------
\* C23: no lost wake-up: the main thread does not wait on ready, after its
\* continue_until has set step, while the worker waits on step with step
\* cleared (the release was erased, nothing will set ready or step).
C23_NoLostWakeup ==
    ~(mainpc = "wait" /\ ~ready_event /\ wpc = "wait" /\ ~step_event)

\* the main thread has not yet run the step_event.set() of its first
\* continue_until
BeforeFirstRelease ==
    /\ initial
    /\ mainpc \in {"start", "find1", "find2", "setfile", "setline", "setfunc",
                   "clear", "setstep"}

\* C24: ready and step start cleared, and until the first release by the
\* main thread the worker has executed no line of the target and the
\* journal is empty.
C24_WorkerStartsPaused ==
    /\ (mainpc = "start" => ~ready_event /\ ~step_event)
    /\ (BeforeFirstRelease => ip = 1 /\ wpc = "run" /\ events = << >>)

\* the worker is running the target: it is not blocked at a stop and has not
\* finished
WorkerExecuting == wpc \in {"run", "check"}

\* C25: the main thread searches the journal (find_index, latest_index)
\* and slices it for a payload only while the worker is not executing
\* target code, so while no event can be appended.
C25_MainReadsQuiescentJournal ==
    [][ (mainpc \in {"find1", "find2", "find3", "latest", "serve"} /\ mainpc' # mainpc)
           => ~WorkerExecuting ]_vars

\* the callback the worker is in is one the released target asks a stop at
AtTarget ==
    /\ prog[ip].function = target_function
    /\ prog[ip].line >= target_line

\* C26: once continue_until has released the worker for (f, L), the worker
\* pauses at a recorded callback exactly when the callback is in f at a
\* line >= L; and whenever the worker is paused with ready set, the event
\* of the callback it paused at is the last event of the journal.
C26_PausesAtFirstMatchingCallback ==
    /\ [][ (mainpc = "wait" /\ wpc = "check" /\ wpc' # wpc) =>
              (wpc' = "clear" <=> AtTarget) ]_vars
    /\ [](wpc \in {"clear", "wait"} /\ ready_event =>
              events # << >> /\ events[Len(events)].pos = ip)

\* C27: a request that matches no journal event, for a target that has
\* returned without reaching the requested location, is not answered with
\* the thread-died error after a timed-out wait when the journal holds
\* events (it is answered with the payload of the latest event).
C27_FinishedTargetGetsFallback ==
    (/\ errInfo # << >>
     /\ errInfo[1].via = "timeout"
     /\ ~errInfo[1].alive
     /\ ~errInfo[1].exc
     /\ Matches = {}) => events = << >>

\* ------------------------------------------------------------------------
\* The file rule of user_line as a frame condition
\* ------------------------------------------------------------------------
\* the worker handles the line callback prog[ip] in this step
LineCallbackStep ==
    /\ wpc = "run"
    /\ ip <= Len(prog)
    /\ (ip' # ip \/ wpc' # wpc)

MaxLines == 2       \* line callbacks of the target
MaxSlices == 1      \* payloads built

ValueObj(val) ==
    [kind |-> "value", line |-> 0, linear_index |-> 0, ref |-> 0, val |-> val]

EventObj(line, linear_index, ref) ==
    [kind |-> "event", line |-> line, linear_index |-> linear_index, ref |-> ref,
     val |-> 0]

\* copy.deepcopy of the event dicts ids: for each a new snapshot value and
\* a new event dict that refers to it, allocated at the end of the heap
DeepCopyEvents(heap, ids) ==
    LET base == Len(heap)
        New(j) == IF j % 2 = 1
                  THEN ValueObj(heap[heap[ids[(j + 1) \div 2]].ref].val)
                  ELSE [heap[ids[j \div 2]] EXCEPT !.ref = base + j - 1]
    IN  [heap |-> heap \o [j \in 1..(2 * Len(ids)) |-> New(j)],
         ids |-> [k \in 1..Len(ids) |-> base + 2 * k]]

\* A slice that hands out the journal's own event dicts.
slice_to_index_shared(heap, journal, index) ==
    IF index < 0 \/ index >= Len(journal) THEN [heap |-> heap, ids |-> << >>]
    ELSE [heap |-> heap, ids |-> SubSeq(journal, 1, index + 1)]

\* slice_to_index: deep copies of _events[: index + 1]
slice_to_index(heap, journal, index) ==
    IF index < 0 \/ index >= Len(journal) THEN [heap |-> heap, ids |-> << >>]
    ELSE DeepCopyEvents(heap, SubSeq(journal, 1, index + 1))

\* user_line, lines 837 and 882-884, and record: safe_json builds the
\* snapshot of the local from the value its object has now, the callback
\* gets a deep copy of the event and record stores a deep copy of the
\* snapshot in a new event dict with linear_index = len(_events), appended
\* to _events.  The copies made on the way are dropped when the callback
\* returns; the heap gets the stored snapshot and the stored event dict.
RecordLine(heap, journal, frame, lineno) ==
    [heap |-> heap \o <<ValueObj(heap[frame].val),
                        EventObj(lineno, Len(journal), Len(heap) + 1)>>,
     journal |-> Append(journal, Len(heap) + 2)]

\* what the journal holds: for each index the fields of the event and the
\* value of its snapshot
JournalView(heap, journal) ==
    [i \in 1..Len(journal) |->
        [line |-> heap[journal[i]].line,
         linear_index |-> heap[journal[i]].linear_index,
         locals |-> heap[heap[journal[i]].ref].val]]

InitJournal ==
    /\ NotTracing
    /\ stage = "tracing"
    /\ invocation = [op |-> "journal"]
    /\ \E v \in 0..1 :
         result = [heap |-> <<ValueObj(v)>>, frame |-> 1, line |-> 0,
                   journal |-> << >>, payload |-> << >>, slices |-> 0]

\* the target reaches its next line: user_line and record
UserLineStep ==
    /\ result.line < MaxLines
    /\ LET r == RecordLine(result.heap, result.journal, result.frame, result.line + 1)
       IN  result' = [result EXCEPT !.heap = r.heap, !.journal = r.journal,
                                    !.line = result.line + 1]
    /\ UNCHANGED <<tracerVars, event_callback, invocation, stage>>

\* the target changes the object its local is bound to (list.append,
\* a dict store) between two lines
TargetMutatesStep ==
    /\ result' = [result EXCEPT !.heap[result.frame].val = 1 - @]
    /\ UNCHANGED <<tracerVars, event_callback, invocation, stage>>

\* build_flow_payload, line 765: the events of a payload
SliceStep ==
    /\ result.slices < MaxSlices
    /\ \E index \in 0..Len(result.journal) :
         LET s == slice_to_index(result.heap, result.journal, index)
         IN  result' = [result EXCEPT !.heap = s.heap, !.payload = s.ids,
                                      !.slices = result.slices + 1]
    /\ UNCHANGED <<tracerVars, event_callback, invocation, stage>>

\* a holder of the payload changes one of its events: a field of the event
\* dict or the snapshot inside it
ConsumerMutatesStep ==
    /\ \E k \in 1..Len(result.payload) :
         LET id == result.payload[k]
         IN  \/ result' = [result EXCEPT !.heap[id].line = 9 - @]
             \/ result' = [result EXCEPT !.heap[result.heap[id].ref].val = 1 - @]
    /\ UNCHANGED <<tracerVars, event_callback, invocation, stage>>

NextJournal == UserLineStep \/ TargetMutatesStep \/ SliceStep \/ ConsumerMutatesStep

SpecJournal == InitJournal /\ [][NextJournal]_vars

\* C30: every step leaves the events that are in the journal as they are
\* (line, linear_index and snapshot), whatever the target does to its
\* local and a consumer to the events of a payload, and changes the
\* journal only by an append at index len(journal) of an event whose
\* linear_index is that index.
C30_JournalAppendOnly ==
    [][ LET old == JournalView(result.heap, result.journal)
            new == JournalView(result'.heap, result'.journal)
        IN  /\ Len(new) \in {Len(old), Len(old) + 1}
            /\ SubSeq(new, 1, Len(old)) = old
            /\ Len(new) = Len(old) + 1 => new[Len(new)].linear_index = Len(old) ]_vars

\* two events are in the journal; after the first was recorded the target
\* changed its local, and a consumer changed the line and the snapshot of
\* the first event of a payload
C30_Witness ==
    /\ Len(result.journal) = 2
    /\ Len(result.payload) >= 1
    /\ LET view == JournalView(result.heap, result.journal)
           copy == result.heap[result.payload[1]]
       IN  /\ view[1].locals # view[2].locals
           /\ view[1].linear_index = 0 /\ view[2].linear_index = 1
           /\ copy.line # view[1].line
           /\ result.heap[copy.ref].val # view[1].locals

\* ------------------------------------------------------------------------
\* Bodies with qualified callees: qualify_calls_in_line (linearizer.py
\* 285-315) and extract_functions_from_file (318-349), for a file without
\* imports
\* ------------------------------------------------------------------------
MaxFunctions == 3      \* function definitions of the file

\* re.sub(r"\b[A-Za-z_]\w*\s*\(", replacer, line) from index i on: a name
\* at a word boundary, followed by optional blanks and "(", is replaced by
\* the file's id and the name when it is in local_funcs, and by the name
\* and "(" otherwise (imports_map is empty)
RECURSIVE QualifyCallsInLine(_, _, _, _)
QualifyCallsInLine(line, local_funcs, rel_path_str, i) ==
    LET Starts(p) == /\ CharAt(line, p) \in Alpha
                     /\ CharAt(line, p - 1) \notin WordChars
        starts == {p \in i..Len(line) : Starts(p)}
        p == Min(starts)
        name_end == RunEnd(line, WordChars, p)
        paren == RunEnd(line, Whitespace, name_end + 1) + 1
        fn == SubSeq(line, p, name_end)
    IN  IF starts = {} THEN SubSeq(line, i, Len(line))
        ELSE IF CharAt(line, paren) = "("
             THEN SubSeq(line, i, p - 1)
                  \o (IF fn \in local_funcs THEN rel_path_str \o "::" \o fn \o "("
                      ELSE fn \o "(")
                  \o QualifyCallsInLine(line, local_funcs, rel_path_str, paren + 1)
             ELSE SubSeq(line, i, name_end)
                  \o QualifyCallsInLine(line, local_funcs, rel_path_str, name_end + 1)

\* "\n".join of the qualified lines of a body
RECURSIVE QualifiedLines(_, _, _, _)
QualifiedLines(body, local_funcs, rel_path_str, n) ==
    IF n = 0 THEN ""
    ELSE (IF n = 1 THEN ""
          ELSE QualifiedLines(body, local_funcs, rel_path_str, n - 1) \o "\n")
         \o QualifyCallsInLine(body[n], local_funcs, rel_path_str, 1)

\* extract_functions_from_file from line i on; st holds current_name,
\* current_body, local_funcs and results.  function_names = {} stands for
\* None (a new file: every function is taken).  A body is qualified when
\* the next def line or the end of the file is reached, with the
\* local_funcs collected up to then.
RECURSIVE ExtractFunctionsFromFile(_, _, _, _, _)
ExtractFunctionsFromFile(text, function_names, rel_file, i, st) ==
    LET finished ==
            IF st.current_name # None /\ st.current_body # << >>
            THEN Append(st.results,
                        [name |-> st.current_name,
                         body |-> QualifiedLines(st.current_body, st.local_funcs,
                                                 "/" \o rel_file, Len(st.current_body))])
            ELSE st.results
        m == PyFuncDef(text[i])
        taken == function_names = {} \/ m.name \in function_names
    IN  IF i > Len(text) THEN finished
        ELSE IF m.matched
             THEN ExtractFunctionsFromFile(text, function_names, rel_file, i + 1,
                      [current_name |-> IF taken THEN m.name ELSE None,
                       current_body |-> IF taken THEN <<text[i]>> ELSE << >>,
                       local_funcs |-> IF taken THEN st.local_funcs \cup {m.name}
                                       ELSE st.local_funcs,
                       results |-> finished])
             ELSE ExtractFunctionsFromFile(text, function_names, rel_file, i + 1,
                      [st EXCEPT !.current_body =
                          IF st.current_name # None THEN Append(@, text[i]) ELSE @])

\* linearizer main, lines 499-506: the bodies of the changed functions of
\* the file, keyed by canonical id
AllFuncBodies(text, function_names, rel_file) ==
    LET extracted == ExtractFunctionsFromFile(text, function_names, rel_file, 1,
                        [current_name |-> None, current_body |-> << >>,
                         local_funcs |-> {}, results |-> << >>])
    IN  [id \in {MainKey(rel_file, extracted[k].name) : k \in 1..Len(extracted)} |->
            extracted[CHOOSE k \in 1..Len(extracted) :
                         /\ MainKey(rel_file, extracted[k].name) = id
                         /\ \A j \in (k + 1)..Len(extracted) :
                               MainKey(rel_file, extracted[j].name) # id].body]

\* The text of file.py: the functions defs[1], defs[2], ... in this order,
\* each a def line and one statement, a call of the function callee[k] of
\* the file or a return.
RECURSIVE FileText(_, _, _)
FileText(defs, callee, n) ==
    IF n = 0 THEN << >>
    ELSE FileText(defs, callee, n - 1)
         \o <<"def " \o defs[n] \o "(x):",
              IF callee[n] = 0 THEN "    return x"
              ELSE "    return " \o defs[callee[n]] \o "(x)">>

InitQualify ==
    /\ NotTracing
    /\ stage = "start"
    /\ result = << >>
    /\ \E defs \in DistinctSeqs({"a", "b", "c"}, MaxFunctions) :
       \E callee \in [1..Len(defs) -> 0..Len(defs)] :
       \E function_names \in SUBSET {defs[k] : k \in 1..Len(defs)} :
         /\ Len(defs) >= 1
         /\ invocation = [op |-> "qualify", defs |-> defs, callee |-> callee,
                          function_names |-> function_names,
                          text |-> FileText(defs, callee, Len(defs))]

\* linearizer main, lines 499-506
ExtractStep ==
    /\ stage = "start"
    /\ invocation.op = "qualify"
    /\ result' = [functions |-> AllFuncBodies(invocation.text, invocation.function_names,
                                              "file.py")]
    /\ stage' = "bodies"
    /\ UNCHANGED <<tracerVars, event_callback, invocation>>

\* linearizer main, lines 507-508
QualifiedGraphStep ==
    /\ stage = "bodies"
    /\ invocation.op = "qualify"
    /\ result' = [functions |-> result.functions,
                  call_graph |-> BuildCallGraph(result.functions)]
    /\ stage' = "graph"
    /\ UNCHANGED <<tracerVars, event_callback, invocation>>

NextQualify == ExtractStep \/ QualifiedGraphStep

SpecQualify == InitQualify /\ [][NextQualify]_vars

\* the changed functions of the file: all of them when none is named
ChangedNames ==
    IF invocation.function_names = {}
    THEN {invocation.defs[k] : k \in 1..Len(invocation.defs)}
    ELSE invocation.function_names

\* C31: when the functions defs[f] and defs[g] of the file are both
\* changed and the body of defs[f] calls defs[g], the call graph has the
\* edge from the id of defs[f] to the id of defs[g], whether g is defined
\* before or after f.
C31_LocalCallsBecomeEdges ==
    (stage = "graph" /\ invocation.op = "qualify") =>
        \A f, g \in 1..Len(invocation.defs) :
            (/\ f # g
             /\ invocation.callee[f] = g
             /\ invocation.defs[f] \in ChangedNames
             /\ invocation.defs[g] \in ChangedNames) =>
                HasEdge(MakeFullId(invocation.defs[f]), MakeFullId(invocation.defs[g]))

\* ------------------------------------------------------------------------
\* is_important_hunk on hunks with calls on added lines
\* ------------------------------------------------------------------------
MaxHunkLines == 3      \* lines of the hunk

\* Lines of a hunk: def lines of f and of process_items without and with a
\* call in a default value, a statement without and with a call, a
\* comment and a context line.
HunkLinePool ==
    {"-def f(a):", "+def f(a=g(1)):",
     "-def process_items(a):", "+def process_items(a=g()):",
     "-    x = 1", "+    x = g(2)", "+# note", "     return a"}

InitCalls ==
    /\ NotTracing
    /\ stage = "start"
    /\ result = << >>
    /\ \E hunk_lines \in DistinctSeqs(HunkLinePool, MaxHunkLines) :
         /\ hunk_lines # << >>
         /\ invocation = [op |-> "classify", lines |-> hunk_lines]

\* parse_diff, line 157: is_important_hunk(h["lines"])
ClassifyStep ==
    /\ stage = "start"
    /\ invocation.op = "classify"
    /\ result' = [important |-> IsImportantHunk(invocation.lines)]
    /\ stage' = "done"
    /\ UNCHANGED <<tracerVars, event_callback, invocation>>

NextCalls == ClassifyStep

SpecCalls == InitCalls /\ [][NextCalls]_vars

\* an added line of the hunk holds a name followed by "("
HasAddedCall(hunk_lines) ==
    \E i \in 1..Len(hunk_lines) :
        /\ StartsWith(hunk_lines[i], "+")
        /\ ~StartsWith(hunk_lines[i], "+++")
        /\ CallReSearch(SubSeq(hunk_lines[i], 2, Len(hunk_lines[i])))

\* C32: a hunk with an added line that holds a call (a name followed by
\* an opening parenthesis) is classified important, whatever its other
\* lines are.
C32_AddedCallMakesHunkImportant ==
    (stage = "done" /\ invocation.op = "classify" /\ HasAddedCall(invocation.lines))
        => result.important

\* ------------------------------------------------------------------------
\* The request loop: responses, skipped requests, the cursor
\* ------------------------------------------------------------------------
\* main is between two requests: it reads the next one, or it has left
\* the loop
BetweenRequests == mainpc \in {"read", "shutdown"}

\* C33: every request that parses into a target gets exactly one response,
\* a payload or an error event, before the next request is read: never
\* two, and none is missing once main is back at the read or has left the
\* loop.
C33_OneResponsePerRequest ==
    /\ respCount <= 1
    /\ npay + nerr \in {ntargets - 1, ntargets}
    /\ (BetweenRequests /\ ntargets > 0) => (respCount = 1 /\ npay + nerr = ntargets)

\* two requests of the loop were answered, the last one by a payload, and
\* main reads on
C33_Witness ==
    /\ mainpc = "read"
    /\ nreq = 2
    /\ ntargets = 3
    /\ npay = 3
    /\ respCount = 1


\* main read a request, took no target from it and did not leave the loop
RequestSkipped ==
    /\ mainpc = "read"
    /\ nreq' = nreq + 1
    /\ ntargets' = ntargets
    /\ endedBy' = endedBy

\* C34: a request that does not parse into a target produces no response
\* and leaves the journal, the cursor, the worker's target line, function,
\* file and pinned flag and both signals as they were; main goes on to
\* read the next request.
C34_SkippedRequestChangesNothing ==
    [][RequestSkipped =>
        /\ UNCHANGED <<events, last_served_index>>
        /\ UNCHANGED <<target_line, target_function, target_file, pinned_target_file>>
        /\ UNCHANGED <<ready_event, step_event>>
        /\ UNCHANGED <<npay, nerr, respCount, lastOut, lastPayload>>
        /\ mainpc' = "read"]_vars

\* a request was skipped while the worker is paused at a served target,
\* and main reads the next one
C34_Witness ==
    /\ mainpc = "read"
    /\ nreq = 1
    /\ ntargets = 1
    /\ npay = 1
    /\ endedBy = None
    /\ wpc = "wait"
    /\ events # << >>


\* C35: the cursor is always within the journal,
\* -1 <= last_served_index < len(journal), and it is -1 exactly as long as
\* no payload has been served.
C35_CursorWithinJournal ==
    /\ NoIndex <= last_served_index
    /\ last_served_index < Len(events)
    /\ (last_served_index = NoIndex) <=> (npay = 0)

\* two payloads were served and the cursor is on the last event of a
\* journal of several events
C35_Witness ==
    /\ npay = 2
    /\ last_served_index >= 1
    /\ last_served_index = Len(events) - 1


\* ------------------------------------------------------------------------
\* The request loop on a control stream that ends
\* ------------------------------------------------------------------------
MaxStream == 3         \* request lines before the end of the stream

\* a request line: empty, "0", one that does not parse, one that parses
RequestKinds == {"empty", "zero", "malformed", "target"}

InitLoop ==
    /\ NotTracing
    /\ stage = "read"
    /\ \E stream \in UNION {[1..n -> RequestKinds] : n \in 0..MaxStream} :
         invocation = [op |-> "loop", stream |-> stream]
    /\ result = [pos |-> 0, responses |-> 0]

\* line 1354: input() returns the next line, or raises EOFError once the
\* stream has ended
ReadInput ==
    /\ stage = "read"
    /\ invocation.op = "loop"
    /\ IF result.pos < Len(invocation.stream)
       THEN /\ result' = [result EXCEPT !.pos = @ + 1]
            /\ stage' = "dispatch"
       ELSE /\ stage' = "except"
            /\ UNCHANGED result
    /\ UNCHANGED <<tracerVars, event_callback, invocation>>

\* lines 1359-1373: break on an empty line or "0", continue on a line that
\* does not parse, trace_to_target otherwise (one response; break when it
\* returns False)
Dispatch ==
    /\ stage = "dispatch"
    /\ LET user_input == invocation.stream[result.pos]
       IN  \/ /\ user_input \in {"empty", "zero"}
              /\ stage' = "exited"
              /\ UNCHANGED result
           \/ /\ user_input = "malformed"
              /\ stage' = "read"
              /\ UNCHANGED result
           \/ /\ user_input = "target"
              /\ result' = [result EXCEPT !.responses = @ + 1]
              /\ \E traced \in BOOLEAN :
                    stage' = IF traced THEN "read" ELSE "exited"
    /\ UNCHANGED <<tracerVars, event_callback, invocation>>

\* lines 1374-1376: the handler of the loop body logs the exception; the
\* while loop goes on with the next iteration
LogException ==
    /\ stage = "except"
    /\ stage' = "read"
    /\ UNCHANGED <<tracerVars, event_callback, invocation, result>>

NextLoop == ReadInput \/ Dispatch \/ LogException

\* the main thread keeps running as long as it has a step to take
SpecLoop == InitLoop /\ [][NextLoop]_vars /\ WF_vars(NextLoop)

\* C36: the request loop ends for every request stream: once the stream
\* has reached its end the main thread leaves the loop.
C36_LoopEndsAtEndOfInput == <>(stage = "exited")


\* ------------------------------------------------------------------------
\* extract_call_arguments for a callee without parameters
\* ------------------------------------------------------------------------
\* C37: extract-args reports an unobtainable signature only when the
\* lookup of the signature failed: for a callee whose signature was
\* obtained and has no parameter, a call without arguments gives a
\* successful result with empty args and empty kwargs.
C37_NoParameterCalleeSucceeds ==
    (/\ ArgsDone
     /\ invocation.op = "extract"
     /\ ~CalleeSignature(invocation.callee).error
     /\ ArgsParams = << >>
     /\ invocation.call_args = << >>
     /\ \A k \in KeywordNames : invocation.keywords[k] = "absent") =>
        /\ ~ArgsResult.error
        /\ ArgsResult.args = << >>
        /\ ArgsResult.kwargs = {}


\* ------------------------------------------------------------------------
\* Roots of the call graph
\* ------------------------------------------------------------------------
\* the functions reached from those of seen along at most k edges of the
\* call graph
RECURSIVE ReachableWithin(_, _)
ReachableWithin(seen, k) ==
    IF k = 0 THEN seen
    ELSE ReachableWithin(
            seen \cup {g \in DOMAIN result.call_graph : \E f \in seen : HasEdge(f, g)},
            k - 1)

\* C38: when there are changed functions the root list is not empty, and
\* every changed function is reached in the call graph from some root.
C38_EveryFunctionUnderARoot ==
    (GraphDone /\ DOMAIN result.call_graph # {}) =>
        /\ result.parents # {}
        /\ ReachableWithin(result.parents, Cardinality(DOMAIN result.call_graph))
              = DOMAIN result.call_graph


\* ------------------------------------------------------------------------
\* The frame of a runtime extract-args run
\* ------------------------------------------------------------------------
\* C39: in a runtime extract-args run the arguments are evaluated in the
\* frame captured while the worker is paused in the caller, in the pinned
\* file, at a line >= call_line; a caller that returns or raises without
\* pausing at such a line gives an error, and no arguments are evaluated
\* in a frame captured elsewhere.
C39_ArgumentsUseThePausedCallerFrame ==
    (/\ lastOut = "args"
     /\ ~event_callback
     /\ lastPayload # << >>
     /\ lastPayload[1].frame.function # None) =>
        /\ lastPayload[1].paused
        /\ lastPayload[1].frame.function = EntryFn
        /\ lastPayload[1].frame.file = target_file
        /\ lastPayload[1].frame.line >= current_target.line

====
